---- MODULE Spec2Model ----
(***************************************************************************)
(* Model of package log of goccmack/goutil: the logger goroutine           *)
(* (src/log/log.go), its interface routines (src/log/interface.go), its    *)
(* Config (src/log/config.go) and the FileSet it writes to (package files, *)
(* src/log/examples/basic/main.go lines 23-245).                           *)
(*                                                                         *)
(* A Go string is modelled as a sequence of one-character strings, so that *)
(* strings.Split, strings.Join, strings.Contains and path.Split are        *)
(* computed as the library computes them.                                  *)
(***************************************************************************)
EXTENDS Integers, Sequences, FiniteSets, TLC

VARIABLES
    cfgFile,        \* the Config readConfigFile would return now (the external source)
    editsLeft,      \* how often the environment may still edit the config source
    cfg,            \* logger.cfg
    lpc,            \* position of the logger goroutine in logger.run
    lmsg,           \* the request the logger goroutine has received and is handling
    logChan,        \* the entries buffered in logChan, oldest first
    logChanClosed,  \* close(logChan) has been executed
    pc,             \* position of every client goroutine
    arg,            \* the message a client goroutine is sending
    got,            \* the *Config the last GetConfig of a client goroutine returned:
                    \* its fields, and whether it is the object l.cfg points to
    opsLeft,        \* how many interface calls the clients may still start
    nextId,         \* identity of the next log entry (history)
    fsState,        \* the FileSet: "none", "open" or "closed"
    fsLogDir,       \* FileSet.logDir
    fsMaxFiles,     \* FileSet.maxNumFiles
    fsMaxBytes,     \* FileSet.maxFileSize
    fsWrites,       \* every write the FileSet has received, in order (history): for the
                    \* logger the record written, for the FileSet on its own the bytes
                    \* appended and the file they went to
    deq,            \* every entry the logger has taken from logChan, in order (history)
    logRet,         \* the entries whose logging call has returned to its caller (history)
    proc,           \* the process: running, exited by os.Exit, or crashed by a panic
    call,           \* a call of a function of Config on its own: arguments and result
    dir,            \* the log directory: the files in it, by name
    fsCur,          \* FileSet.currentFile: the name of the file, or nil
    fsSize,         \* FileSet.currentFileSize
    now,            \* the clock: the time of the last reading of time.Now()
    fsOpens,        \* how many files the FileSet has created (history)
    fsCloses,       \* how many files the FileSet has closed (history)
    msgChan,        \* the write requests buffered in FileSet.msgChan, oldest first
    closeChan       \* the close requests buffered in FileSet.closeChan

vars == <<cfgFile, editsLeft, cfg, lpc, lmsg, logChan, logChanClosed, pc, arg, got,
          opsLeft, nextId, fsState, fsLogDir, fsMaxFiles, fsMaxBytes, fsWrites, deq, logRet, proc,
          call, dir, fsCur, fsSize, now, fsOpens, fsCloses, msgChan, closeChan>>

(***************************************************************************)
(* Bounds of the model.                                                    *)
(***************************************************************************)
\* interface calls the clients start in one run
MaxOps == 3
\* log entries created in one run
MaxLogs == 3
\* edits of the config source in one run
MaxEdits == 1
\* capacity of logChan; the source buffers 1024 entries (src/log/log.go:163)
LogChanCap == 2

\* the client goroutines
Threads == {1, 2}

(***************************************************************************)
(* Priority, src/log/interface.go:14-30.                                   *)
(***************************************************************************)
EXIT == 0
PANIC == 1
WARNING == 2
INFO == 3
DEBUG == 4

(***************************************************************************)
(* Strings.                                                                *)
(***************************************************************************)
RECURSIVE IndexFrom(_, _, _)
\* the first index i >= from with s[i] = ch, or 0
IndexFrom(s, ch, from) ==
    IF from > Len(s) THEN 0
    ELSE IF s[from] = ch THEN from
    ELSE IndexFrom(s, ch, from + 1)

RECURSIVE LastIndex(_, _, _)
\* the last index i <= upto with s[i] = ch, or 0
LastIndex(s, ch, upto) ==
    IF upto < 1 THEN 0
    ELSE IF s[upto] = ch THEN upto
    ELSE LastIndex(s, ch, upto - 1)

RECURSIVE Split(_, _)
\* strings.Split(s, sep) for a one-character separator: Split("", sep) = [""]
Split(s, sep) ==
    LET i == IndexFrom(s, sep, 1)
    IN  IF i = 0 THEN <<s>>
        ELSE <<SubSeq(s, 1, i - 1)>> \o Split(SubSeq(s, i + 1, Len(s)), sep)

RECURSIVE Join(_, _)
\* strings.Join(elems, sep)
Join(elems, sep) ==
    IF Len(elems) = 0 THEN <<>>
    ELSE IF Len(elems) = 1 THEN elems[1]
    ELSE elems[1] \o <<sep>> \o Join(Tail(elems), sep)

\* strings.Contains(s, substr): the empty substr is contained in every s
Contains(s, substr) ==
    \E i \in 1..(Len(s) - Len(substr) + 1) :
        SubSeq(s, i, i + Len(substr) - 1) = substr

\* the file of path.Split(p): what follows the final slash
PathFile(p) == SubSeq(p, LastIndex(p, "/", Len(p)) + 1, Len(p))

(***************************************************************************)
(* Config, src/log/config.go.                                              *)
(***************************************************************************)
DefaultLogRootDir == "/usr/local/var/log"
DefaultNumFiles == 3
DefaultLogFileNumBytes == 1000000
DefaultPriority == INFO
DefaultSuppressedFiles == <<>>
\* the name of the executable, getFileName()
fileName == "prog"

DefaultConfig ==
    [RootDir |-> DefaultLogRootDir, FileName |-> fileName,
     NumFiles |-> DefaultNumFiles, FileNumBytes |-> DefaultLogFileNumBytes,
     Priority |-> DefaultPriority, SuppressedFiles |-> DefaultSuppressedFiles]

\* Config.Clone: a new Config with every field copied
Clone(c) ==
    [RootDir |-> c.RootDir, FileName |-> c.FileName, NumFiles |-> c.NumFiles,
     FileNumBytes |-> c.FileNumBytes, Priority |-> c.Priority,
     SuppressedFiles |-> c.SuppressedFiles]

\* a variant of CloneIsReceiver: Clone returns its receiver
CloneReturnsReceiver == TRUE

\* Config.Clone returns &Config{...}, a new object: the result is not the receiver
CloneIsReceiver == FALSE

\* Config.Equal: compares five fields; SuppressedFiles is not among them
Equal(c, c1) ==
    ~ (\/ c.RootDir # c1.RootDir
       \/ c.FileName # c1.FileName
       \/ c.NumFiles # c1.NumFiles
       \/ c.FileNumBytes # c1.FileNumBytes
       \/ c.Priority # c1.Priority)

(***************************************************************************)
(* The strings and values the model draws its inputs from.                 *)
(***************************************************************************)
\* values of SuppressedFiles: comma separated lists of file names without extension
sAB == <<"a", "b">>
sA_C == <<"a", ",", "c">>
sC == <<"c">>
\* source files of calls to the logger, as runtime.Caller reports them: x/a.go, d.go,
\* x/c (a file without extension) and ab.go
fA == <<"x", "/", "a", ".", "g", "o">>
fD == <<"d", ".", "g", "o">>
fC == <<"x", "/", "c">>
fAB == <<"a", "b", ".", "g", "o">>

\* what the config source can hold: no document (the defaults) or one of two documents
FileConfigs ==
    {DefaultConfig,
     [DefaultConfig EXCEPT !.RootDir = "logs", !.Priority = DEBUG, !.SuppressedFiles = sC],
     [DefaultConfig EXCEPT !.NumFiles = 2, !.FileNumBytes = 100, !.Priority = EXIT,
                           !.SuppressedFiles = sAB]}

\* arguments of SetConfig(maxFiles, maxBytes, priority)
SetConfigArgs ==
    {[maxFiles |-> 2, maxBytes |-> 100, priority |-> DEBUG]}
\* arguments of Suppress(files)
SuppressArgs == {sAB, sA_C}
\* arguments of the logging routines: Info and Debug from several files
LogArgs ==
    {[priority |-> INFO, file |-> fA], [priority |-> DEBUG, file |-> fA],
     [priority |-> DEBUG, file |-> fD], [priority |-> DEBUG, file |-> fC]}
\* arguments of Exit(exitCode, msg)
ExitCodes == {3}

(***************************************************************************)
(* The logger's filter and its writes, src/log/log.go:263-317.             *)
(***************************************************************************)
\* a variant of isSuppressed that compares the whole list with the file name
isSuppressedWholeList(c, file, priority) ==
    IF priority < DEBUG THEN FALSE
    ELSE IF c.SuppressedFiles = <<>> THEN FALSE
    ELSE LET fns == Split(file, ".")
             fn == Join(SubSeq(fns, 1, Len(fns) - 1), ".")
         IN  c.SuppressedFiles = fn

\* logger.isSuppressed(file, priority) under configuration c
isSuppressed(c, file, priority) ==
    IF priority < DEBUG THEN FALSE
    ELSE IF c.SuppressedFiles = <<>> THEN FALSE
    ELSE LET fns == Split(file, ".")
             fn == Join(SubSeq(fns, 1, Len(fns) - 1), ".")
         IN  Contains(c.SuppressedFiles, fn)

\* a variant of the condition of logMsg that does not compare the priority
AdmitsAnyPriority(c, file, priority) == ~ isSuppressed(c, PathFile(file), priority)

\* the condition of logger.logMsg on the file name without its directory
Admits(c, file, priority) ==
    priority <= c.Priority /\ ~ isSuppressed(c, PathFile(file), priority)

\* the line logger.logMsg formats: its tag, file name, message and stack trace
MsgLine(id, file, priority, stackTrace) ==
    [kind |-> "msg", id |-> id, tag |-> priority, fname |-> PathFile(file),
     text |-> stackTrace]

\* logger.logMsg: write the line to the FileSet if the filter admits it
logMsg(w, c, id, file, priority, stackTrace) ==
    IF Admits(c, file, priority)
    THEN Append(w, MsgLine(id, file, priority, stackTrace))
    ELSE w

\* logger.logExit: write the EXIT record, whatever the configuration is
logExit(w, file, exitCode) ==
    Append(w, [kind |-> "exit", id |-> 0, tag |-> EXIT, fname |-> PathFile(file),
               text |-> exitCode])

\* logger.logConfig: six writes, one per Fprintf
logConfig(w, c) ==
    w \o << [kind |-> "config", id |-> 0, tag |-> 0, fname |-> <<>>, text |-> "Log configuration:"],
            [kind |-> "config", id |-> 0, tag |-> 0, fname |-> <<>>, text |-> c.RootDir],
            [kind |-> "config", id |-> 0, tag |-> 0, fname |-> <<>>, text |-> c.NumFiles],
            [kind |-> "config", id |-> 0, tag |-> 0, fname |-> <<>>, text |-> c.FileNumBytes],
            [kind |-> "config", id |-> 0, tag |-> 0, fname |-> <<>>, text |-> c.Priority],
            [kind |-> "config", id |-> 0, tag |-> 0, fname |-> <<>>, text |-> c.SuppressedFiles] >>

\* a variant of flushLogMsgs that takes the entries and logs none
flushLogMsgsLost(w, c, q) == w

RECURSIVE flushLogMsgsNewestFirst(_, _, _)
\* a variant of flushLogMsgs that takes the newest entry first
flushLogMsgsNewestFirst(w, c, q) ==
    IF q = <<>> THEN w
    ELSE flushLogMsgsNewestFirst(
             logMsg(w, c, q[Len(q)].id, q[Len(q)].file, q[Len(q)].priority, <<>>),
             c, SubSeq(q, 1, Len(q) - 1))

RECURSIVE flushLogMsgs(_, _, _)
\* logger.flushLogMsgs: logMsg for each of the entries q buffered in logChan, in order
flushLogMsgs(w, c, q) ==
    IF q = <<>> THEN w
    ELSE flushLogMsgs(logMsg(w, c, Head(q).id, Head(q).file, Head(q).priority, <<>>),
                      c, Tail(q))

(***************************************************************************)
(* History: what the logger did with each entry it took from logChan.      *)
(***************************************************************************)
\* entry e, the ord-th that was put into logChan, filtered under c on path p ("run", "flush" or "drain"); queued tells
\* that e was in logChan when the logger received a SetConfig or Suppress request,
\* and old is the configuration at that moment
DeqRec(e, c, p, queued, old) ==
    [id |-> e.id, ord |-> e.ord, file |-> e.file, priority |-> e.priority,
     thr |-> c.Priority, sup |-> c.SuppressedFiles, path |-> p,
     fresh |-> e.fresh, pthr |-> e.pthr, psup |-> e.psup,
     queued |-> e.id \in queued, oldthr |-> old.Priority, oldsup |-> old.SuppressedFiles]

DeqAll(q, c, p, queued, old) == [i \in 1..Len(q) |-> DeqRec(q[i], c, p, queued, old)]

QueuedIds == {logChan[i].id : i \in 1..Len(logChan)}

\* the entries of logChan, marked as having seen a change of configuration
Stale(q) == [i \in 1..Len(q) |-> [q[i] EXCEPT !.fresh = FALSE]]

(***************************************************************************)
(* The channels, src/log/log.go:159-167.                                   *)
(***************************************************************************)
\* a variant of CanSend that lets one entry more into the buffer
CanSendOneMore(q) == Len(q) <= LogChanCap

\* a send on logChan can proceed: the buffer has room
CanSend(q) == Len(q) < LogChanCap

\* logIF's "defer recover()": recover is the deferred function itself, it is not
\* called by a deferred function, so it returns nil and the panic goes on
deferRecover == FALSE

\* the zero Config the logger holds before run() has read the config file
nilConfig ==
    [RootDir |-> "", FileName |-> "", NumFiles |-> 0, FileNumBytes |-> 0,
     Priority |-> EXIT, SuppressedFiles |-> <<>>]

\* a variant of FlushConfig: the flush comes before the assignments
FlushConfigOld(old, new) == old

\* the configuration under which the flush of a SetConfig or Suppress request
\* filters: the fields are assigned before flushLogMsgs is called
FlushConfig(old, new) == new

\* the configuration a SetConfig request cm makes of c
WithSetConfig(c, cm) ==
    [c EXCEPT !.NumFiles = cm.maxFiles, !.FileNumBytes = cm.maxBytes,
              !.Priority = cm.priority]

\* the configuration a Suppress request s makes of c
WithSuppress(c, s) == [c EXCEPT !.SuppressedFiles = s]

\* the configuration in effect once the logger has finished the request it handles
Promised ==
    IF lpc = "setConfig" THEN WithSetConfig(cfg, lmsg.cm)
    ELSE IF lpc = "suppress" THEN WithSuppress(cfg, lmsg.s)
    ELSE cfg

\* the entry a logging call puts into logChan now
Entry(id, a) ==
    [id |-> id, ord |-> Cardinality(logRet) + 1, file |-> a.file, priority |-> a.priority,
     pthr |-> Promised.Priority, psup |-> Promised.SuppressedFiles,
     fresh |-> lpc # "start"]

\* the stack trace getPanicStackTrace captures for a Panic call
stackTrace == <<"s", "t", "k">>

\* the nil *Config a client goroutine holds before its first GetConfig
nilGot == [val |-> nilConfig, shared |-> FALSE, nil |-> TRUE]

\* what a client goroutine holds once the logger has changed the object l.cfg
\* points to into new: a *Config to that object shows the change
Seen(g, new) == IF g.shared THEN [g EXCEPT !.val = new] ELSE g

\* what a client goroutine holds once l.cfg points to another object
Left(g) == [g EXCEPT !.shared = FALSE]

\* the value a caller writes into a field of a Config it was given
mine == "mine"

Running == proc.state = "running"
noMsg == [kind |-> "none"]
noCall == [fn |-> "none"]
\* the nil *os.File
nil == "nil"

(***************************************************************************)
(* The initial state: init() has started the logger goroutine, which has   *)
(* not yet run.                                                            *)
(***************************************************************************)
InitLogger ==
    /\ cfgFile \in FileConfigs
    /\ editsLeft = MaxEdits
    /\ cfg = nilConfig
    /\ lpc = "start"
    /\ lmsg = noMsg
    /\ logChan = <<>>
    /\ logChanClosed = FALSE
    /\ pc = [t \in Threads |-> "idle"]
    /\ arg = [t \in Threads |-> noMsg]
    /\ got = [t \in Threads |-> nilGot]
    /\ opsLeft = MaxOps
    /\ nextId = 1
    /\ fsState = "none"
    /\ fsLogDir = ""
    /\ fsMaxFiles = 0
    /\ fsMaxBytes = 0
    /\ fsWrites = <<>>
    /\ deq = <<>>
    /\ logRet = {}
    /\ proc = [state |-> "running", code |-> 0]

\* no FileSet has touched the log directory
InitNoFiles ==
    /\ dir = <<>>
    /\ fsCur = nil
    /\ fsSize = 0
    /\ now = 0
    /\ fsOpens = 0
    /\ fsCloses = 0
    /\ msgChan = <<>>
    /\ closeChan = <<>>

\* no function of Config is called on its own
Init == InitLogger /\ InitNoFiles /\ call = noCall

\* the files as the FileSet leaves them; the FileSet's work on them is the subject of
\* FilesSpec below
filesVars == <<dir, fsCur, fsSize, now, fsOpens, fsCloses, msgChan, closeChan>>
envVars == <<cfgFile, editsLeft, call, filesVars>>
fsVars == <<fsState, fsLogDir, fsMaxFiles, fsMaxBytes, fsWrites>>
loggerVars == <<cfg, lpc, lmsg, fsState, fsLogDir, fsMaxFiles, fsMaxBytes, fsWrites, deq>>
clientVars == <<pc, arg, got, opsLeft, nextId, logRet>>

(***************************************************************************)
(* The interface routines, called by the client goroutines.                *)
(***************************************************************************)
\* an unrecovered panic of goroutine t ends the process with exit code 2
Crash(t) ==
    /\ pc' = [pc EXCEPT ![t] = "panicked"]
    /\ proc' = [state |-> "crashed", code |-> 2]

\* logIF, src/log/log.go:228-238: the send on logChan, when t calls Warning, Info or
\* Debug. The send panics on a closed channel, proceeds when the buffer has room and
\* blocks otherwise.
CallLog(t, a) ==
    /\ Running /\ pc[t] = "idle" /\ opsLeft > 0 /\ nextId <= MaxLogs
    /\ opsLeft' = opsLeft - 1
    /\ nextId' = nextId + 1
    /\ IF logChanClosed
       THEN /\ IF deferRecover
               THEN UNCHANGED <<pc, proc>>
               ELSE Crash(t)
            /\ UNCHANGED <<logChan, arg, logRet>>
       ELSE IF CanSend(logChan)
       THEN /\ logChan' = Append(logChan, Entry(nextId, a))
            /\ logRet' = logRet \cup {nextId}
            /\ UNCHANGED <<pc, arg, proc>>
       ELSE /\ pc' = [pc EXCEPT ![t] = "log"]
            /\ arg' = [arg EXCEPT ![t] = [kind |-> "log", id |-> nextId, a |-> a]]
            /\ UNCHANGED <<logChan, logRet, proc>>
    /\ UNCHANGED <<envVars, loggerVars, logChanClosed, got>>

\* logIF, src/log/log.go:237: a send that was blocked on the full logChan proceeds,
\* or panics because logChan has been closed meanwhile
LogSend(t) ==
    /\ Running /\ pc[t] = "log"
    /\ IF logChanClosed
       THEN /\ IF deferRecover
               THEN pc' = [pc EXCEPT ![t] = "idle"] /\ UNCHANGED proc
               ELSE Crash(t)
            /\ UNCHANGED <<logChan, logRet>>
       ELSE /\ CanSend(logChan)
            /\ logChan' = Append(logChan, Entry(arg[t].id, arg[t].a))
            /\ logRet' = logRet \cup {arg[t].id}
            /\ pc' = [pc EXCEPT ![t] = "idle"]
            /\ UNCHANGED proc
    /\ UNCHANGED <<envVars, loggerVars, logChanClosed, arg, got, opsLeft, nextId>>

\* readConfigFile: the Config of the config source as it is now
readConfigFile == cfgFile

(***************************************************************************)
(* The requests on the unbuffered channels, src/log/log.go:160-166.  A     *)
(* send on an unbuffered channel and its receive are one step, taken when  *)
(* the logger goroutine is at its select; the sender is at its send until  *)
(* then.  Once the logger goroutine has returned nobody receives, and a    *)
(* sender stays at its send (BlockedCall).                                 *)
(***************************************************************************)
\* goroutine t may start an interface call that the logger receives now
CanCall(t) == Running /\ pc[t] = "idle" /\ opsLeft > 0 /\ lpc = "select"

\* SetConfig, src/log/interface.go:141-147, received at src/log/log.go:348:
\* SetConfig returns to its caller
CallSetConfig(t, cm) ==
    /\ CanCall(t)
    /\ opsLeft' = opsLeft - 1
    /\ lmsg' = [kind |-> "setConfig", cm |-> cm, queued |-> QueuedIds, old |-> cfg]
    /\ logChan' = Stale(logChan)
    /\ lpc' = "setConfig"
    /\ UNCHANGED <<envVars, cfg, fsVars, deq, logChanClosed, pc, arg, got, nextId,
                   logRet, proc>>

\* src/log/log.go:349-354: the fields are assigned, logChan is flushed, the FileSet is
\* configured and the configuration is logged
LoggerSetConfig ==
    /\ Running /\ lpc = "setConfig"
    /\ LET new == WithSetConfig(cfg, lmsg.cm)
           fc == FlushConfig(cfg, new)
       IN  /\ cfg' = new
           /\ fsWrites' = logConfig(flushLogMsgs(fsWrites, fc, logChan), new)
           /\ deq' = deq \o DeqAll(logChan, fc, "flush", lmsg.queued, lmsg.old)
           /\ fsMaxFiles' = lmsg.cm.maxFiles
           /\ fsMaxBytes' = lmsg.cm.maxBytes
           /\ got' = [t \in Threads |-> Seen(got[t], new)]
    /\ logChan' = <<>>
    /\ lpc' = "select"
    /\ lmsg' = noMsg
    /\ UNCHANGED <<envVars, fsState, fsLogDir, logChanClosed, pc, arg, opsLeft, nextId,
                   logRet, proc>>

\* Suppress, src/log/interface.go:155-157, received at src/log/log.go:357:
\* Suppress returns to its caller
CallSuppress(t, s) ==
    /\ CanCall(t)
    /\ opsLeft' = opsLeft - 1
    /\ lmsg' = [kind |-> "suppress", s |-> s, queued |-> QueuedIds, old |-> cfg]
    /\ logChan' = Stale(logChan)
    /\ lpc' = "suppress"
    /\ UNCHANGED <<envVars, cfg, fsVars, deq, logChanClosed, pc, arg, got, nextId,
                   logRet, proc>>

\* src/log/log.go:358-360: the list is assigned, logChan is flushed and the
\* configuration is logged
LoggerSuppress ==
    /\ Running /\ lpc = "suppress"
    /\ LET new == WithSuppress(cfg, lmsg.s)
           fc == FlushConfig(cfg, new)
       IN  /\ cfg' = new
           /\ fsWrites' = logConfig(flushLogMsgs(fsWrites, fc, logChan), new)
           /\ deq' = deq \o DeqAll(logChan, fc, "flush", lmsg.queued, lmsg.old)
           /\ got' = [t \in Threads |-> Seen(got[t], new)]
    /\ logChan' = <<>>
    /\ lpc' = "select"
    /\ lmsg' = noMsg
    /\ UNCHANGED <<envVars, fsState, fsLogDir, fsMaxFiles, fsMaxBytes, logChanClosed, pc, arg, opsLeft,
                   nextId, logRet, proc>>

\* GetConfig, src/log/interface.go:128-137, answered at src/log/log.go:355-356 with a
\* clone of the configuration
CallGetConfig(t) ==
    /\ CanCall(t)
    /\ opsLeft' = opsLeft - 1
    /\ got' = [got EXCEPT ![t] = [val |-> Clone(cfg), shared |-> CloneIsReceiver,
                                   nil |-> FALSE]]
    /\ UNCHANGED <<envVars, loggerVars, logChan, logChanClosed, pc, arg, nextId, logRet, proc>>

\* the caller of GetConfig assigns to a field of the Config it was given; a Config
\* that is the logger's own object changes the logger's configuration
MutateConfig(t) ==
    /\ Running /\ pc[t] = "idle" /\ ~ got[t].nil /\ got[t].val.RootDir # mine
    /\ LET new == [got[t].val EXCEPT !.RootDir = mine]
       IN  /\ got' = [u \in Threads |->
                         IF u = t \/ (got[t].shared /\ got[u].shared)
                         THEN [got[u] EXCEPT !.val = new] ELSE got[u]]
           /\ cfg' = IF got[t].shared THEN new ELSE cfg
    /\ UNCHANGED <<envVars, lpc, lmsg, fsVars, deq, logChan, logChanClosed, pc, arg,
                   opsLeft, nextId, logRet, proc>>

\* Close, src/log/interface.go:68-73, received at src/log/log.go:329-330: run returns
\* and the deferred l.close() closes logChan (line 258); Close returns to its caller
CallClose(t) ==
    /\ CanCall(t)
    /\ opsLeft' = opsLeft - 1
    /\ lmsg' = [kind |-> "close"]
    /\ logChanClosed' = TRUE
    /\ lpc' = "closing"
    /\ UNCHANGED <<envVars, cfg, fsVars, deq, logChan, pc, arg, got, nextId, logRet, proc>>

\* Exit and Exitf through exitIF, src/log/log.go:212-225, received at lines 331-333:
\* the EXIT record is written and l.close() closes logChan (line 258). The caller
\* stays in its loop.
CallExit(t, code) ==
    /\ CanCall(t)
    /\ opsLeft' = opsLeft - 1
    /\ pc' = [pc EXCEPT ![t] = "exitIF"]
    /\ lmsg' = [kind |-> "exit", exitCode |-> code]
    /\ fsWrites' = logExit(fsWrites, fA, code)
    /\ logChanClosed' = TRUE
    /\ lpc' = "closing"
    /\ UNCHANGED <<envVars, cfg, fsState, fsLogDir, fsMaxFiles, fsMaxBytes, deq, logChan, arg, got,
                   nextId, logRet, proc>>

\* Panic and Panicf through panicIF, src/log/log.go:241-253, received at lines
\* 337-339: the message goes through logMsg with priority PANIC and l.close() closes
\* logChan (line 258). The caller stays in its loop.
CallPanic(t) ==
    /\ CanCall(t)
    /\ opsLeft' = opsLeft - 1
    /\ pc' = [pc EXCEPT ![t] = "panicIF"]
    /\ lmsg' = [kind |-> "panic"]
    /\ fsWrites' = logMsg(fsWrites, cfg, 0, fAB, PANIC, stackTrace)
    /\ logChanClosed' = TRUE
    /\ lpc' = "closing"
    /\ UNCHANGED <<envVars, cfg, fsState, fsLogDir, fsMaxFiles, fsMaxBytes, deq, logChan, arg, got,
                   nextId, logRet, proc>>

\* the channels of the requests: their sends find no receiver once run has returned
RequestChans ==
    {"closeChan", "exitChan", "getConfigChan", "panicChan", "setConfigChan", "suppressChan"}

\* goroutine t sends on channel ch after the logger goroutine has returned: nobody
\* receives, t stays at its send
BlockedCall(t, ch) ==
    /\ Running /\ pc[t] = "idle" /\ opsLeft > 0 /\ lpc = "returned"
    /\ opsLeft' = opsLeft - 1
    /\ pc' = [pc EXCEPT ![t] = ch]
    /\ arg' = [arg EXCEPT ![t] = [kind |-> ch]]
    /\ UNCHANGED <<envVars, loggerVars, logChan, logChanClosed, got, nextId, logRet, proc>>

\* the environment edits the config file
EditConfigFile(c) ==
    /\ Running /\ editsLeft > 0 /\ c # cfgFile
    /\ cfgFile' = c
    /\ editsLeft' = editsLeft - 1
    /\ UNCHANGED <<loggerVars, logChan, logChanClosed, clientVars, proc, call, filesVars>>

(***************************************************************************)
(* The logger goroutine, logger.run, src/log/log.go:319-363.               *)
(***************************************************************************)
\* lines 320-325: read the config file, create the FileSet, log the configuration
LoggerStart ==
    /\ Running /\ lpc = "start"
    /\ cfg' = readConfigFile
    /\ fsState' = "open"
    /\ fsLogDir' = cfg'.RootDir
    /\ fsMaxFiles' = cfg'.NumFiles
    /\ fsMaxBytes' = cfg'.FileNumBytes
    /\ fsWrites' = logConfig(fsWrites, cfg')
    /\ logChan' = Stale(logChan)
    /\ lpc' = "select"
    /\ UNCHANGED <<envVars, lmsg, logChanClosed, clientVars, deq, proc>>

\* lines 335-336: an entry of logChan
LoggerLog ==
    /\ Running /\ lpc = "select" /\ logChan # <<>>
    /\ LET e == Head(logChan)
       IN  /\ fsWrites' = logMsg(fsWrites, cfg, e.id, e.file, e.priority, <<>>)
           /\ deq' = Append(deq, DeqRec(e, cfg, "run", {}, cfg))
    /\ logChan' = Tail(logChan)
    /\ UNCHANGED <<envVars, cfg, lpc, lmsg, fsState, fsLogDir, fsMaxFiles, fsMaxBytes, logChanClosed,
                   clientVars, proc>>

\* line 259 in l.close(): one turn of the loop of flushLogMsgs, lines 265-268. The
\* logger takes the first entry of the closed logChan and logs it, which is a Write
\* of the FileSet with its reply; the client goroutines run between two turns.
LoggerFlush ==
    /\ Running /\ lpc = "closing" /\ logChan # <<>>
    /\ fsWrites' = flushLogMsgs(fsWrites, cfg, <<Head(logChan)>>)
    /\ deq' = Append(deq, DeqRec(Head(logChan), cfg, "drain", {}, cfg))
    /\ logChan' = Tail(logChan)
    /\ UNCHANGED <<envVars, cfg, lpc, lmsg, fsState, fsLogDir, fsMaxFiles, fsMaxBytes,
                   logChanClosed, clientVars, proc>>

\* line 260: the flush is done; wtr.Close() sends the close request to the FileSet
\* and gets its reply. After a close request l.close() was the deferred call of a
\* run that has returned; otherwise run has still to end the process.
LoggerClose ==
    /\ Running /\ lpc = "closing" /\ logChan = <<>>
    /\ fsState' = "closed"
    /\ lpc' = IF lmsg.kind = "close" THEN "returned" ELSE "exiting"
    /\ UNCHANGED <<envVars, cfg, lmsg, fsLogDir, fsMaxFiles, fsMaxBytes, fsWrites, deq,
                   logChan, logChanClosed, clientVars, proc>>

\* line 334 or 340: os.Exit with the code of the exit request, or 1 for a panic
\* request; after a failed write the panic of logger.write ends the process once the
\* deferred l.close() is done
LoggerExit ==
    /\ Running /\ lpc = "exiting"
    /\ lpc' = "returned"
    /\ proc' = IF lmsg.kind = "exit" THEN [state |-> "exited", code |-> lmsg.exitCode]
               ELSE IF lmsg.kind = "panic" THEN [state |-> "exited", code |-> 1]
               ELSE [state |-> "crashed", code |-> 2]
    /\ UNCHANGED <<envVars, cfg, lmsg, fsVars, deq, logChan, logChanClosed, clientVars>>

\* lines 341-347: the ticker; a config file that differs from the configuration is
\* adopted
LoggerRefresh ==
    /\ Running /\ lpc = "select"
    /\ LET newCfg == readConfigFile
       IN  IF ~ Equal(cfg, newCfg)
           THEN /\ cfg' = newCfg
                /\ fsMaxFiles' = newCfg.NumFiles
                /\ fsMaxBytes' = newCfg.FileNumBytes
                /\ fsWrites' = logConfig(fsWrites, newCfg)
                /\ logChan' = Stale(logChan)
                /\ got' = [t \in Threads |-> Left(got[t])]
           ELSE UNCHANGED <<cfg, fsMaxFiles, fsMaxBytes, fsWrites, logChan, got>>
    /\ UNCHANGED <<envVars, lpc, lmsg, fsState, fsLogDir, deq, logChanClosed, pc, arg, opsLeft,
                   nextId, logRet, proc>>

(***************************************************************************)
(* The specification.                                                      *)
(***************************************************************************)
\* the logging calls of client goroutine t
LogNext(t) ==
    \/ \E a \in LogArgs : CallLog(t, a)
    \/ LogSend(t)

\* the other interface calls of client goroutine t
RequestNext(t) ==
    \/ \E cm \in SetConfigArgs : CallSetConfig(t, cm)
    \/ \E s \in SuppressArgs : CallSuppress(t, s)
    \/ CallGetConfig(t)
    \/ MutateConfig(t)
    \/ CallClose(t)
    \/ \E code \in ExitCodes : CallExit(t, code)
    \/ CallPanic(t)
    \/ \E ch \in RequestChans : BlockedCall(t, ch)

LoggerNext ==
    \/ LoggerStart
    \/ LoggerLog
    \/ LoggerRefresh
    \/ LoggerSetConfig
    \/ LoggerSuppress
    \/ LoggerFlush
    \/ LoggerClose
    \/ LoggerExit

Next ==
    \/ \E t \in Threads : LogNext(t)
    \/ \E t \in Threads : RequestNext(t)
    \/ LoggerNext

Spec == Init /\ [][Next]_vars

\* The Go scheduler runs every goroutine that can run: the logger goroutine takes its
\* next step, and a send on logChan that can proceed does.
FairSpec ==
    /\ Spec
    /\ WF_vars(LoggerNext)
    /\ \A t \in Threads : WF_vars(LogSend(t))

\* A program whose only logging call came before the logger goroutine first ran: its
\* entry waits in logChan, and the clients go on with the other interface calls.
InitQueued ==
    /\ cfgFile \in FileConfigs
    /\ editsLeft = MaxEdits
    /\ cfg = nilConfig
    /\ lpc = "start"
    /\ lmsg = noMsg
    /\ \E a \in LogArgs :
           logChan = << [id |-> 1, ord |-> 1, file |-> a.file, priority |-> a.priority,
                         pthr |-> nilConfig.Priority, psup |-> nilConfig.SuppressedFiles,
                         fresh |-> FALSE] >>
    /\ logChanClosed = FALSE
    /\ pc = [t \in Threads |-> "idle"]
    /\ arg = [t \in Threads |-> noMsg]
    /\ got = [t \in Threads |-> nilGot]
    /\ opsLeft = MaxOps
    /\ nextId = 2
    /\ fsState = "none"
    /\ fsLogDir = ""
    /\ fsMaxFiles = 0
    /\ fsMaxBytes = 0
    /\ fsWrites = <<>>
    /\ deq = <<>>
    /\ logRet = {1}
    /\ proc = [state |-> "running", code |-> 0]
    /\ call = noCall
    /\ InitNoFiles

\* A program whose first two logging calls came before the logger goroutine first
\* ran: their entries wait in logChan, and the clients go on with all the interface
\* calls, so that a shutdown finds more than one entry to flush.
InitTwoQueued ==
    /\ cfgFile \in FileConfigs
    /\ editsLeft = MaxEdits
    /\ cfg = nilConfig
    /\ lpc = "start"
    /\ lmsg = noMsg
    /\ \E a, b \in LogArgs :
           logChan = << [id |-> 1, ord |-> 1, file |-> a.file, priority |-> a.priority,
                         pthr |-> nilConfig.Priority, psup |-> nilConfig.SuppressedFiles,
                         fresh |-> FALSE],
                        [id |-> 2, ord |-> 2, file |-> b.file, priority |-> b.priority,
                         pthr |-> nilConfig.Priority, psup |-> nilConfig.SuppressedFiles,
                         fresh |-> FALSE] >>
    /\ logChanClosed = FALSE
    /\ pc = [t \in Threads |-> "idle"]
    /\ arg = [t \in Threads |-> noMsg]
    /\ got = [t \in Threads |-> nilGot]
    /\ opsLeft = MaxOps - 1
    /\ nextId = 3
    /\ fsState = "none"
    /\ fsLogDir = ""
    /\ fsMaxFiles = 0
    /\ fsMaxBytes = 0
    /\ fsWrites = <<>>
    /\ deq = <<>>
    /\ logRet = {1, 2}
    /\ proc = [state |-> "running", code |-> 0]
    /\ call = noCall
    /\ InitNoFiles

ShutdownSpec == InitTwoQueued /\ [][Next]_vars

RequestsNext ==
    \/ \E t \in Threads : RequestNext(t)
    \/ LoggerNext

RequestsSpec == InitQueued /\ [][RequestsNext]_vars /\ WF_vars(LoggerNext)

\* A program whose config file is edited while it runs and whose clients change the
\* configuration by SetConfig and Suppress; the logger is not shut down.
ReloadNext ==
    \/ \E c \in FileConfigs : EditConfigFile(c)
    \/ \E t \in Threads : \E cm \in SetConfigArgs : CallSetConfig(t, cm)
    \/ \E t \in Threads : \E s \in SuppressArgs : CallSuppress(t, s)
    \/ LoggerStart
    \/ LoggerLog
    \/ LoggerRefresh
    \/ LoggerSetConfig
    \/ LoggerSuppress

ReloadSpec == InitQueued /\ [][ReloadNext]_vars

(***************************************************************************)
(* The logger on a disk where a write can fail: FileSet.log returns the     *)
(* error of currentFile.Write, src/log/examples/basic/main.go:171-178, and  *)
(* FileSet.Write hands it to its caller. A failure is that of one record;   *)
(* the writes after it succeed.                                             *)
(***************************************************************************)
\* what the history keeps of a write of a record of kind k that has failed
failedWrite(k) == [kind |-> "error", id |-> 0, tag |-> 0, fname |-> <<>>, text |-> k]

\* logger.logConfig, log.go:284-291, when the writes fail: Fprintf returns the error
\* of each of the six writes and logConfig drops it
logConfigFails(w) == w \o [i \in 1..6 |-> failedWrite("config")]

\* lines 320-325 when the writes of logConfig fail: run goes on to its loop
LoggerStartFails ==
    /\ Running /\ lpc = "start"
    /\ cfg' = readConfigFile
    /\ fsState' = "open"
    /\ fsLogDir' = cfg'.RootDir
    /\ fsMaxFiles' = cfg'.NumFiles
    /\ fsMaxBytes' = cfg'.FileNumBytes
    /\ fsWrites' = logConfigFails(fsWrites)
    /\ logChan' = Stale(logChan)
    /\ lpc' = "select"
    /\ UNCHANGED <<envVars, lmsg, logChanClosed, clientVars, deq, proc>>

\* lines 335-336 when the write of the line fails: the logger has taken the entry
\* from logChan, and logger.write panics, log.go:365-369; the logger goroutine comes to
\* the deferred l.close() of line 322
LoggerLogFails ==
    /\ Running /\ lpc = "select" /\ logChan # <<>>
    /\ LET e == Head(logChan)
       IN  /\ Admits(cfg, e.file, e.priority)
           /\ fsWrites' = Append(fsWrites, failedWrite("msg"))
           /\ deq' = Append(deq, DeqRec(e, cfg, "run", {}, cfg))
    /\ logChan' = Tail(logChan)
    /\ lmsg' = [kind |-> "failed"]
    /\ lpc' = "deferred"
    /\ UNCHANGED <<envVars, cfg, fsState, fsLogDir, fsMaxFiles, fsMaxBytes, logChanClosed,
                   clientVars, proc>>

\* Exit when the write of the EXIT record fails, lines 331-332: logExit calls
\* logger.write, which panics, log.go:365-369, before the l.close() of line 333; the
\* logger goroutine comes to the deferred l.close() of line 322. The caller stays in
\* its loop.
CallExitFails(t, code) ==
    /\ CanCall(t)
    /\ opsLeft' = opsLeft - 1
    /\ pc' = [pc EXCEPT ![t] = "exitIF"]
    /\ lmsg' = [kind |-> "failed"]
    /\ fsWrites' = Append(fsWrites, failedWrite("exit"))
    /\ lpc' = "deferred"
    /\ UNCHANGED <<envVars, cfg, fsState, fsLogDir, fsMaxFiles, fsMaxBytes, deq, logChan,
                   logChanClosed, arg, got, nextId, logRet, proc>>

\* Panic when the write of the PANIC record fails, lines 337-338: logMsg writes the
\* record if the threshold admits PANIC, and logger.write panics; the logger goroutine
\* comes to the deferred l.close() of line 322. The caller stays in its loop.
CallPanicFails(t) ==
    /\ CanCall(t)
    /\ Admits(cfg, fAB, PANIC)
    /\ opsLeft' = opsLeft - 1
    /\ pc' = [pc EXCEPT ![t] = "panicIF"]
    /\ lmsg' = [kind |-> "failed"]
    /\ fsWrites' = Append(fsWrites, failedWrite("panic"))
    /\ lpc' = "deferred"
    /\ UNCHANGED <<envVars, cfg, fsState, fsLogDir, fsMaxFiles, fsMaxBytes, deq, logChan,
                   logChanClosed, arg, got, nextId, logRet, proc>>

\* a turn of the loop of flushLogMsgs in l.close(), lines 265-268, when the write of
\* the entry fails: the logger has taken the entry and the FileSet has answered with
\* the error, so that logger.write panics, log.go:365-369, before wtr.Close() is
\* reached. In the l.close() that run calls for an exit or a panic request (lines 333,
\* 339) the panic brings the logger goroutine to the deferred l.close() of line 322;
\* in the deferred l.close(), after a close request or a failed write, no deferred
\* call is left and the panic is about to end the process.
LoggerCloseFails ==
    /\ Running /\ lpc = "closing" /\ logChan # <<>>
    /\ LET e == Head(logChan)
       IN  /\ Admits(cfg, e.file, e.priority)
           /\ fsWrites' = Append(fsWrites, failedWrite("msg"))
           /\ deq' = Append(deq, DeqRec(e, cfg, "drain", {}, cfg))
    /\ logChan' = Tail(logChan)
    /\ lpc' = IF lmsg.kind \in {"exit", "panic"} THEN "deferred" ELSE "panicking"
    /\ UNCHANGED <<envVars, cfg, lmsg, fsState, fsLogDir, fsMaxFiles, fsMaxBytes,
                   logChanClosed, clientVars, proc>>

\* the panic of logger.write, log.go:367, raised inside the deferred l.close(): it
\* leaves the logger goroutine with nothing to run and the process ends with status 2
LoggerPanics ==
    /\ Running /\ lpc = "panicking"
    /\ lpc' = "returned"
    /\ proc' = [state |-> "crashed", code |-> 2]
    /\ UNCHANGED <<envVars, cfg, lmsg, fsVars, deq, logChan, logChanClosed, clientVars>>

\* the deferred l.close() of line 322 starts while logger.write's panic unwinds run:
\* close(logChan), line 258. After a panic in the l.close() of line 333 or 339 the
\* channel is closed already: the close panics and the process ends. Otherwise the
\* flush and wtr.Close() follow.
LoggerDeferredClose ==
    /\ Running /\ lpc = "deferred"
    /\ IF logChanClosed
       THEN /\ lpc' = "returned"
            /\ proc' = [state |-> "crashed", code |-> 2]
            /\ UNCHANGED logChanClosed
       ELSE /\ logChanClosed' = TRUE
            /\ lpc' = "closing"
            /\ UNCHANGED proc
    /\ UNCHANGED <<envVars, cfg, lmsg, fsVars, deq, logChan, clientVars>>

DiskNext ==
    \/ \E t \in Threads : LogNext(t)
    \/ \E t \in Threads : CallClose(t)
    \/ \E t \in Threads : \E code \in ExitCodes : CallExit(t, code)
    \/ \E t \in Threads : CallPanic(t)
    \/ \E t \in Threads : \E code \in ExitCodes : CallExitFails(t, code)
    \/ \E t \in Threads : CallPanicFails(t)
    \/ LoggerStart
    \/ LoggerStartFails
    \/ LoggerLog
    \/ LoggerLogFails
    \/ LoggerFlush
    \/ LoggerClose
    \/ LoggerExit
    \/ LoggerCloseFails
    \/ LoggerPanics
    \/ LoggerDeferredClose

DiskSpec == Init /\ [][DiskNext]_vars

(***************************************************************************)
(* The functions of Config, called on their own.                           *)
(***************************************************************************)
\* Config values: two values for every field
Configs ==
    [RootDir : {DefaultLogRootDir, "logs"}, FileName : {fileName, "tool"},
     NumFiles : {2, DefaultNumFiles}, FileNumBytes : {100, DefaultLogFileNumBytes},
     Priority : {INFO, DEBUG}, SuppressedFiles : {DefaultSuppressedFiles, sC}]

\* a program that is about to call c.Equal(c1)
InitConfig ==
    /\ InitLogger /\ InitNoFiles
    /\ \E c, c1 \in Configs : call = [fn |-> "Equal", c |-> c, c1 |-> c1, done |-> FALSE]

\* the call c.Equal(c1) returns
CallEqual ==
    /\ call.fn = "Equal" /\ ~ call.done
    /\ call' = [fn |-> "Equal", c |-> call.c, c1 |-> call.c1, done |-> TRUE,
                ret |-> Equal(call.c, call.c1)]
    /\ UNCHANGED <<cfgFile, editsLeft, filesVars, loggerVars, logChan, logChanClosed,
                   clientVars, proc>>

ConfigNext == CallEqual

ConfigSpec == InitConfig /\ [][ConfigNext]_vars

(***************************************************************************)
(* Package files, src/log/examples/basic/main.go:23-245: the FileSet on    *)
(* its own, driven through New, Write, SetConfig and Close.                *)
(***************************************************************************)
\* calls of Write, SetConfig and Close in one run
MaxFileOps == 4
\* the last reading of the clock, in tenths of a second
MaxTime == 7

\* the characters of file names in the order of their bytes, the order of sort.Strings
Alphabet ==
    <<".", "0", "1", "2", "3", "4", "5", "6", "7", "8", "9", "Z", "_", "g", "l", "o",
      "p", "q">>

Code(ch) == CHOOSE i \in 1..Len(Alphabet) : Alphabet[i] = ch

RECURSIVE StrLess(_, _)
\* a < b for Go strings: the comparison of the bytes
StrLess(a, b) ==
    IF b = <<>> THEN FALSE
    ELSE IF a = <<>> THEN TRUE
    ELSE IF Head(a) # Head(b) THEN Code(Head(a)) < Code(Head(b))
    ELSE StrLess(Tail(a), Tail(b))

RECURSIVE SortStrings(_)
\* sort.Strings: the strings of S in increasing order
SortStrings(S) ==
    IF S = {} THEN <<>>
    ELSE LET m == CHOOSE x \in S : \A y \in S \ {x} : StrLess(x, y)
         IN  <<m>> \o SortStrings(S \ {m})

Digit(n) == Alphabet[n + 2]

\* time.Now().Format(time.RFC3339Nano) for the time of t tenths of a second, without
\* the date, hours and minutes that all the times have in common: the seconds, the
\* fraction if it is not zero, and the zone UTC
Stamp(t) ==
    <<Digit(t \div 10)>>
        \o (IF t % 10 = 0 THEN <<>> ELSE <<".", Digit(t % 10)>>)
        \o <<"Z">>

\* the log name of the FileSet and the log name of another program
logName == <<"p">>
otherName == <<"q">>
\* the log name of a third program, which begins with the log name of the FileSet
longName == <<"p", "q">>

\* the name newFile gives a file: <logName>_<time>.log
LogFileName(name, t) == name \o <<"_">> \o Stamp(t) \o <<".", "l", "o", "g">>

\* filepath.Glob of <logDir>/<logName>*.log matches file f of the directory
Match(f, name) ==
    /\ Len(f) >= Len(name) + 4
    /\ SubSeq(f, 1, Len(name)) = name
    /\ SubSeq(f, Len(f) - 3, Len(f)) = <<".", "l", "o", "g">>

\* ListLogFiles: the files of the directory d that match, sorted by name
ListLogFiles(d, name) == SortStrings({f \in DOMAIN d : Match(f, name)})

\* the FileSet and its directory as one value
FS ==
    [dir |-> dir, currentFile |-> fsCur, currentFileSize |-> fsSize,
     maxFileSize |-> fsMaxBytes, maxNumFiles |-> fsMaxFiles,
     opens |-> fsOpens, closes |-> fsCloses, written |-> fsWrites]

\* the variables take the values of F
Becomes(F) ==
    /\ dir' = F.dir
    /\ fsCur' = F.currentFile
    /\ fsSize' = F.currentFileSize
    /\ fsMaxBytes' = F.maxFileSize
    /\ fsMaxFiles' = F.maxNumFiles
    /\ fsOpens' = F.opens
    /\ fsCloses' = F.closes
    /\ fsWrites' = F.written

\* os.Remove(fname)
rmFile(d, fname) == [f \in DOMAIN d \ {fname} |-> d[f]]

\* newFile at time t: os.Create makes the file, or truncates the file of that name;
\* the header that logConfig writes into it is not counted in currentFileSize
newFile(F, t) ==
    LET fname == LogFileName(logName, t)
        file == [data |-> 0,
                 born |-> IF fname \in DOMAIN F.dir THEN F.dir[fname].born
                          ELSE MaxTime + 1 + F.opens]
    IN  [F EXCEPT !.dir = [f \in DOMAIN F.dir \cup {fname} |->
                              IF f = fname THEN file ELSE F.dir[f]],
                  !.currentFile = fname,
                  !.opens = @ + 1]

\* a variant of deleteCount that keeps one file more
deleteCountShort(n, maxNumFiles) == n - maxNumFiles

\* rotate, line 213: how many of the n log files are deleted
deleteCount(n, maxNumFiles) == n - maxNumFiles + 1

\* a variant of rotate that leaves the current file open
rotateLeavesOpen(F, t) ==
    LET logFiles == ListLogFiles(F.dir, logName)
        delete == deleteCount(Len(logFiles), F.maxNumFiles)
        gone == {logFiles[i] : i \in 1..delete}
        F1 == [F EXCEPT !.dir = [f \in DOMAIN F.dir \ gone |-> F.dir[f]]]
    IN  [newFile(F1, t) EXCEPT !.currentFileSize = 0]

\* rotate at time t: close the current file, delete the first log files of the
\* sorted list, make a new file, reset the size
rotate(F, t) ==
    LET logFiles == ListLogFiles(F.dir, logName)
        delete == deleteCount(Len(logFiles), F.maxNumFiles)
        gone == {logFiles[i] : i \in 1..delete}
        F1 == [F EXCEPT !.closes = IF F.currentFile # nil THEN @ + 1 ELSE @,
                        !.dir = [f \in DOMAIN F.dir \ gone |-> F.dir[f]]]
    IN  [newFile(F1, t) EXCEPT !.currentFileSize = 0]

\* a variant of mustRotate that lets the file reach its maximal size
mustRotateAbove(size, maxFileSize) == size > maxFileSize

\* log, line 174: the condition of the rotation after a write
mustRotate(size, maxFileSize) == size >= maxFileSize

\* a variant of writeResponse that reports no bytes
writeResponseEmpty(n) == [n |-> 0, err |-> nil]

\* log, lines 171 and 178: the response to a write of n bytes that succeeds
writeResponse(n) == [n |-> n, err |-> nil]

\* log: a write of n bytes to the current file, which succeeds, at time t; written
\* keeps what has been appended to which file, and gen tells the files that newFile
\* has made apart (history)
log(F, n, t) ==
    LET F1 == [F EXCEPT !.currentFileSize = @ + n,
                        !.dir[F.currentFile].data = @ + n,
                        !.written = Append(@, [n |-> n, file |-> F.currentFile,
                                               gen |-> F.opens])]
    IN  IF mustRotate(F1.currentFileSize, F1.maxFileSize) THEN rotate(F1, t) ELSE F1

\* a variant of setConfig that never rotates
setConfigKeepsFile(F, numFiles, fileSize, t) ==
    [F EXCEPT !.maxFileSize = fileSize, !.maxNumFiles = numFiles]

\* setConfig at time t
setConfig(F, numFiles, fileSize, t) ==
    LET F1 == [F EXCEPT !.maxFileSize = fileSize, !.maxNumFiles = numFiles]
    IN  IF F1.currentFileSize > F1.maxFileSize THEN rotate(F1, t) ELSE F1

\* a variant of close that leaves the current file in the directory
closeKeepsFile(F) == [F EXCEPT !.closes = @ + 1]

\* close with no request left in msgChan: remove the current file if nothing was
\* written to it, close it
close(F) ==
    [F EXCEPT !.dir = IF F.currentFileSize < 1 THEN rmFile(F.dir, F.currentFile) ELSE @,
              !.closes = @ + 1]

\* the variables of the logger and of its clients, which the FileSet on its own
\* leaves alone
notFiles ==
    <<cfgFile, editsLeft, cfg, lpc, lmsg, logChan, logChanClosed, pc, arg, got, nextId,
      fsLogDir, deq, logRet, proc>>

\* the times of the files that earlier runs have left in the directory
OldTimes == {0, 1, 2}
\* the arguments of New: maxFileSize and maxNumFiles
NewArgs ==
    {[maxFileSize |-> 100, maxNumFiles |-> 3], [maxFileSize |-> 50, maxNumFiles |-> 1]}
\* the arguments of SetConfig
FileSetConfigArgs ==
    {[numFiles |-> 2, fileSize |-> 20], [numFiles |-> 3, fileSize |-> 100]}
\* the lengths of the buffers of Write
WriteSizes == {10, 40, 250}

\* a directory with the log files of the times T and a log file of each of the
\* programs with the log names others
OldDir(T, others) ==
    [f \in {LogFileName(logName, t) : t \in T}
            \cup {LogFileName(name, 0) : name \in others} |->
        [data |-> 10,
         born |-> IF f \in {LogFileName(name, 0) : name \in others} THEN 0
                  ELSE CHOOSE t \in T : f = LogFileName(logName, t)]]

\* New has made a FileSet for a directory that holds some files; its goroutine has
\* not yet run; the goroutines G may call it
InitFileSet(G, ops) ==
    /\ cfgFile = DefaultConfig /\ editsLeft = 0 /\ cfg = nilConfig
    /\ lpc = "start" /\ lmsg = noMsg /\ logChan = <<>> /\ logChanClosed = FALSE
    /\ pc = [t \in G |-> "idle"]
    /\ arg = [t \in Threads |-> noMsg]
    /\ got = [t \in Threads |-> nilGot]
    /\ nextId = 1
    /\ fsLogDir = "logs" /\ fsWrites = <<>> /\ deq = <<>> /\ logRet = {}
    /\ proc = [state |-> "running", code |-> 0]
    /\ opsLeft = ops
    /\ fsState = "none"
    /\ \E a \in NewArgs : fsMaxBytes = a.maxFileSize /\ fsMaxFiles = a.maxNumFiles
    /\ \E T \in SUBSET OldTimes : \E others \in {{}, {otherName}, {longName}} :
           dir = OldDir(T, others)
    /\ fsCur = nil
    /\ fsSize = 0
    /\ now = 3
    /\ fsOpens = 0
    /\ fsCloses = 0
    /\ msgChan = <<>>
    /\ closeChan = <<>>
    /\ call = noCall

\* the goroutine of a program that calls the FileSet from one goroutine only: each
\* of its calls has returned before the next one starts
Client == {1}

InitFiles == InitFileSet(Client, MaxFileOps)

\* the variables a call of the FileSet by the client goroutine leaves alone
notCalls ==
    <<cfgFile, editsLeft, cfg, lpc, lmsg, logChan, logChanClosed, arg, got, nextId,
      fsLogDir, deq, logRet>>

\* what a call of the FileSet remembers of the state it started in
Before(fn) ==
    [fn |-> fn, size |-> fsSize, maxFileSize |-> fsMaxBytes, opens |-> fsOpens,
     closes |-> fsCloses, currentFile |-> fsCur, files |-> DOMAIN dir, old |-> dir,
     nwritten |-> Len(fsWrites)]

\* a variant of run that enters its loop without a rotation
runKeepsFile(t) ==
    /\ Running /\ fsState = "none" /\ t >= now
    /\ fsState' = "open"
    /\ call' = Before("run")
    /\ UNCHANGED <<notFiles, opsLeft, msgChan, closeChan, fsWrites, fsMaxFiles,
                   fsMaxBytes, dir, fsCur, fsSize, now, fsOpens, fsCloses>>

\* run, line 222: the rotation at the start of the goroutine, at time t
run(t) ==
    /\ Running /\ fsState = "none" /\ t >= now
    /\ Becomes(rotate(FS, t))
    /\ now' = t
    /\ fsState' = "open"
    /\ call' = Before("run")
    /\ UNCHANGED <<notFiles, opsLeft, msgChan, closeChan>>

\* Write(buf) with len(buf) = n by the client goroutine, lines 136-148: the request
\* is sent on msgChan, run serves it at line 233 at time t and the client gets the
\* response. Once close has closed msgChan (line 153) the send of line 138 panics.
Write(n, t) ==
    /\ Running /\ fsState \in {"open", "closed"} /\ opsLeft > 0 /\ t >= now
    /\ \E c \in Client :
           /\ pc[c] = "idle"
           /\ IF fsState = "closed"
              THEN /\ Crash(c)
                   /\ UNCHANGED <<call, fsMaxFiles, fsMaxBytes, fsWrites, dir, fsCur,
                                  fsSize, now, fsOpens, fsCloses>>
              ELSE /\ Becomes(log(FS, n, t))
                   /\ now' = IF fsOpens' # fsOpens THEN t ELSE now
                   /\ call' = [Before("Write") EXCEPT !.size = fsSize + n]
                                   @@ [n |-> n, ret |-> writeResponse(n)]
                   /\ UNCHANGED <<pc, proc>>
    /\ opsLeft' = opsLeft - 1
    /\ UNCHANGED <<notCalls, fsState, msgChan, closeChan>>

\* SetConfig(numFiles, fileSize) by the client goroutine, lines 122-134: run receives
\* the request at lines 229-231 at time t and replies. Once run has returned nothing
\* receives from setConfigChan, and the client stays at its send of line 124.
SetConfig(numFiles, fileSize, t) ==
    /\ Running /\ fsState \in {"open", "closed"} /\ opsLeft > 0 /\ t >= now
    /\ \E c \in Client :
           /\ pc[c] = "idle"
           /\ IF fsState = "closed"
              THEN /\ pc' = [pc EXCEPT ![c] = "SetConfig"]
                   /\ UNCHANGED <<call, fsMaxFiles, fsMaxBytes, fsWrites, dir, fsCur,
                                  fsSize, now, fsOpens, fsCloses>>
              ELSE /\ Becomes(setConfig(FS, numFiles, fileSize, t))
                   /\ now' = IF fsOpens' # fsOpens THEN t ELSE now
                   /\ call' = Before("SetConfig")
                   /\ UNCHANGED pc
    /\ opsLeft' = opsLeft - 1
    /\ UNCHANGED <<notCalls, proc, fsState, msgChan, closeChan>>

\* Close by the client goroutine, lines 96-105: run receives the request at lines
\* 225-228, closes and replies. Once run has returned the request stays in closeChan,
\* no reply comes and the client panics after its second (line 103).
Close ==
    /\ Running /\ fsState \in {"open", "closed"} /\ opsLeft > 0
    /\ \E c \in Client :
           /\ pc[c] = "idle"
           /\ IF fsState = "closed"
              THEN /\ closeChan' = Append(closeChan, c)
                   /\ Crash(c)
                   /\ UNCHANGED <<call, fsState, fsMaxFiles, fsMaxBytes, fsWrites, dir,
                                  fsCur, fsSize, fsOpens, fsCloses>>
              ELSE /\ Becomes(close(FS))
                   /\ fsState' = "closed"
                   /\ call' = Before("Close")
                   /\ UNCHANGED <<pc, proc, closeChan>>
    /\ opsLeft' = opsLeft - 1
    /\ UNCHANGED <<notCalls, now, msgChan>>

FilesNext ==
    \/ \E t \in 0..MaxTime : run(t)
    \/ \E n \in WriteSizes : \E t \in 0..MaxTime : Write(n, t)
    \/ \E a \in FileSetConfigArgs : \E t \in 0..MaxTime : SetConfig(a.numFiles, a.fileSize, t)
    \/ Close

FilesSpec == InitFiles /\ [][FilesNext]_vars

(***************************************************************************)
(* The FileSet with callers in several goroutines: the requests wait in    *)
(* msgChan and closeChan until run receives them.                          *)
(***************************************************************************)
\* the capacity of msgChan, 1024 in New, scaled down
MsgChanCap == 2
\* calls of Write, SetConfig and Close by the goroutines in one run
MaxQueueOps == 3

\* the goroutines that call the FileSet
Callers == {1, 2, 3}

\* a variant of drain that discards the request
drainDiscards(F, q, t) == F

\* close, lines 154-156: one turn of the loop over the requests q left in msgChan,
\* at time t: the first request is logged and the response of log is dropped
drain(F, q, t) == log(F, Head(q).n, t)

\* the variables the FileSet with callers in several goroutines leaves alone
notQueue ==
    <<cfgFile, editsLeft, cfg, lpc, lmsg, logChan, logChanClosed, arg, got, nextId,
      fsLogDir, deq, logRet>>

\* Write of goroutine c, line 138: the send of the request on msgChan, which blocks
\* while the buffer is full; c then waits in the select of lines 142-147
WriteSend(c, n) ==
    /\ Running /\ pc[c] = "idle" /\ opsLeft > 0
    /\ fsState \in {"none", "open"} /\ Len(msgChan) < MsgChanCap
    /\ opsLeft' = opsLeft - 1
    /\ msgChan' = Append(msgChan, [n |-> n, from |-> c])
    /\ pc' = [pc EXCEPT ![c] = "Write"]
    /\ UNCHANGED <<notQueue, proc, call, fsState, fsMaxFiles, fsMaxBytes, fsWrites, dir,
                   fsCur, fsSize, now, fsOpens, fsCloses, closeChan>>

\* Write of goroutine c once close has closed msgChan, line 153: the send panics,
\* also while close is still at its loop
WriteClosed(c) ==
    /\ Running /\ pc[c] = "idle" /\ opsLeft > 0
    /\ fsState \in {"closing", "closed"}
    /\ opsLeft' = opsLeft - 1
    /\ Crash(c)
    /\ UNCHANGED <<notQueue, call, fsState, fsMaxFiles, fsMaxBytes, fsWrites, dir, fsCur,
                   fsSize, now, fsOpens, fsCloses, msgChan, closeChan>>

\* run, lines 232-233, at time t: the first request of msgChan is logged and the
\* response is handed to its caller, who returns from Write
runWrite(t) ==
    /\ Running /\ fsState = "open" /\ msgChan # <<>> /\ t >= now
    /\ Becomes(log(FS, Head(msgChan).n, t))
    /\ msgChan' = Tail(msgChan)
    /\ now' = IF fsOpens' # fsOpens THEN t ELSE now
    /\ pc' = [pc EXCEPT ![Head(msgChan).from] = "idle"]
    /\ call' = [Before("Write") EXCEPT !.size = fsSize + Head(msgChan).n]
                    @@ [n |-> Head(msgChan).n, ret |-> writeResponse(Head(msgChan).n)]
    /\ UNCHANGED <<notQueue, proc, opsLeft, fsState, closeChan>>

\* Close of goroutine c, line 98: the send on closeChan, which has room for one
\* request; c then waits in the select of lines 99-104
CloseSend(c) ==
    /\ Running /\ pc[c] = "idle" /\ opsLeft > 0
    /\ closeChan = <<>>
    /\ opsLeft' = opsLeft - 1
    /\ closeChan' = <<c>>
    /\ pc' = [pc EXCEPT ![c] = "Close"]
    /\ UNCHANGED <<notQueue, proc, call, fsState, fsMaxFiles, fsMaxBytes, fsWrites, dir,
                   fsCur, fsSize, now, fsOpens, fsCloses, msgChan>>

\* run, line 225, and close, line 153: run receives the close request, which leaves
\* closeChan, and close closes msgChan; done is the reply channel of the request,
\* that of goroutine Head(closeChan), pending the requests left in msgChan, and
\* replied tells whether run has sent the reply on done
runClose ==
    /\ Running /\ fsState = "open" /\ closeChan # <<>>
    /\ closeChan' = Tail(closeChan)
    /\ fsState' = "closing"
    /\ call' = Before("Close")
                    @@ [pending |-> msgChan, done |-> Head(closeChan), replied |-> FALSE]
    /\ UNCHANGED <<notQueue, proc, pc, opsLeft, msgChan, fsMaxFiles, fsMaxBytes, fsWrites,
                   dir, fsCur, fsSize, now, fsOpens, fsCloses>>

\* close, lines 154-156, at time t: a turn of the loop, which logs the first of the
\* requests left in msgChan; its caller gets no reply
runDrain(t) ==
    /\ Running /\ fsState = "closing" /\ msgChan # <<>> /\ t >= now
    /\ Becomes(drain(FS, msgChan, t))
    /\ msgChan' = Tail(msgChan)
    /\ now' = IF fsOpens' # fsOpens THEN t ELSE now
    /\ UNCHANGED <<notQueue, proc, pc, opsLeft, call, fsState, closeChan>>

\* close, lines 158-163: msgChan is empty, the current file is removed if it is
\* empty and closed; the caller of Close still waits for its reply
runClosed ==
    /\ Running /\ fsState = "closing" /\ msgChan = <<>>
    /\ Becomes(close(FS))
    /\ fsState' = "closed"
    /\ UNCHANGED <<notQueue, proc, pc, opsLeft, call, now, msgChan, closeChan>>

\* run, lines 227-228: the send of the reply on done, which meets the receive of the
\* caller of Close in its select, line 100; Close returns to its caller and run
\* returns
runReply ==
    /\ Running /\ fsState = "closed" /\ ~ call.replied
    /\ pc[call.done] = "Close"
    /\ pc' = [pc EXCEPT ![call.done] = "idle"]
    /\ call' = [call EXCEPT !.replied = TRUE]
    /\ UNCHANGED <<notQueue, proc, opsLeft, fsState, fsMaxFiles, fsMaxBytes, fsWrites,
                   dir, fsCur, fsSize, now, fsOpens, fsCloses, msgChan, closeChan>>

\* SetConfig of goroutine c while run is in its loop: the send on setConfigChan, line
\* 124, meets the receive of run, lines 229-231, at time t, and c gets the reply
SetConfigServed(c, numFiles, fileSize, t) ==
    /\ Running /\ pc[c] = "idle" /\ opsLeft > 0
    /\ fsState = "open" /\ t >= now
    /\ opsLeft' = opsLeft - 1
    /\ Becomes(setConfig(FS, numFiles, fileSize, t))
    /\ now' = IF fsOpens' # fsOpens THEN t ELSE now
    /\ call' = Before("SetConfig")
    /\ UNCHANGED <<notQueue, proc, pc, fsState, msgChan, closeChan>>

\* SetConfig of goroutine c once run has received a close request: nothing receives
\* from setConfigChan any more, the send of line 124 does not end
SetConfigSend(c) ==
    /\ Running /\ pc[c] = "idle" /\ opsLeft > 0
    /\ fsState \in {"closing", "closed"}
    /\ opsLeft' = opsLeft - 1
    /\ pc' = [pc EXCEPT ![c] = "SetConfig"]
    /\ UNCHANGED <<notQueue, proc, call, fsState, fsMaxFiles, fsMaxBytes, fsWrites, dir,
                   fsCur, fsSize, now, fsOpens, fsCloses, msgChan, closeChan>>

\* the second has passed without a reply for goroutine c, which waits in the select
\* of Write or of Close: run has received a close request and sends no reply, but
\* the one to that request, which the caller of that request is still to get until
\* run has sent it; c panics
Timeout(c) ==
    /\ Running /\ pc[c] \in {"Write", "Close"}
    /\ fsState \in {"closing", "closed"}
    /\ call.replied \/ ~ (pc[c] = "Close" /\ c = call.done)
    /\ Crash(c)
    /\ UNCHANGED <<notQueue, opsLeft, call, fsState, fsMaxFiles, fsMaxBytes, fsWrites,
                   dir, fsCur, fsSize, now, fsOpens, fsCloses, msgChan, closeChan>>

\* the readings of the clock when run serves a request: the time of the last file
\* made, or one unit later
ClockTimes == {t \in 0..MaxTime : t >= now /\ t <= now + 1}

\* the steps of the goroutine of run
runNext ==
    \/ \E t \in ClockTimes : run(t)
    \/ \E t \in ClockTimes : runWrite(t)
    \/ runClose
    \/ \E t \in ClockTimes : runDrain(t)
    \/ runClosed
    \/ runReply

QueueNext ==
    \/ runNext
    \/ \E c \in Callers : \E n \in WriteSizes : WriteSend(c, n)
    \/ \E c \in Callers : WriteClosed(c)
    \/ \E c \in Callers : CloseSend(c)
    \/ \E c \in Callers : \E a \in FileSetConfigArgs : \E t \in ClockTimes :
           SetConfigServed(c, a.numFiles, a.fileSize, t)
    \/ \E c \in Callers : SetConfigSend(c)
    \/ \E c \in Callers : Timeout(c)

\* New has made a FileSet for a directory that is empty, or that holds the files of
\* three earlier runs and a file of another program
InitQueue == InitFileSet(Callers, MaxQueueOps) /\ dir \in {OldDir({}, {}), OldDir(OldTimes, {otherName})}

QueueSpec == InitQueue /\ [][QueueNext]_vars

\* New has made a FileSet for a directory that is empty
InitEmptyDir == InitFileSet(Callers, MaxQueueOps) /\ dir = OldDir({}, {})

\* run goes on while it can, and the second of a caller that waits in vain passes
QueueFairSpec ==
    /\ InitEmptyDir /\ [][QueueNext]_vars
    /\ WF_vars(runNext) /\ \A c \in Callers : WF_vars(Timeout(c))

(***************************************************************************)
(* TestFiles1, lines 255-267: a FileSet of 3 files of 100 bytes, 25 writes *)
(* of 10 bytes one after the other, Close at the end.                      *)
(***************************************************************************)
fileSize == 100
numFiles == 3
\* the number of the writes and the length of the line "%2d.......\n"
TestWrites == 25
TestLineLen == 10

InitTestFiles1 ==
    /\ InitFileSet(Client, TestWrites + 1)
    /\ fsMaxBytes = fileSize /\ fsMaxFiles = numFiles

TestFiles1Next ==
    \/ \E t \in 0..MaxTime : run(t)
    \/ opsLeft > 1 /\ \E t \in 0..MaxTime : Write(TestLineLen, t)
    \/ opsLeft = 1 /\ Close

TestFiles1Spec == InitTestFiles1 /\ [][TestFiles1Next]_vars

(***************************************************************************)
(* Package stringslice, src/unnamed/part_000:57-162: Equal, called on its   *)
(* own.                                                                    *)
(***************************************************************************)
\* the longest slice
MaxSliceLen == 3

\* Clone: a new slice with the elements of s1
SliceClone(s1) == [i \in 1..Len(s1) |-> s1[i]]

\* Contains: s holds at least one instance of e
SliceContains(s, e) == \E i \in 1..Len(s) : s[i] = e

\* Equal: the lengths are the same and every element of s1 is in s2
SliceEqual(s1, s2) ==
    IF Len(s1) # Len(s2) THEN FALSE
    ELSE \A i \in 1..Len(s1) : SliceContains(s2, s1[i])

\* Reverse: rev[j] = ss[i] for i from the first and j from the last index
Reverse(ss) == [j \in 1..Len(ss) |-> ss[Len(ss) + 1 - j]]

\* the slices of at most MaxSliceLen strings out of two
Slices == UNION {[1..n -> {"a", "b"}] : n \in 0..MaxSliceLen}

\* a program that is about to call Equal(s1, s2)
InitSlices ==
    /\ InitLogger /\ InitNoFiles
    /\ \E s1, s2 \in Slices :
           call = [fn |-> "stringslice.Equal", s1 |-> s1, s2 |-> s2, done |-> FALSE]

\* the calls Equal(s1, s2), Equal(s2, s1), Equal(s1, Clone(s1)) and
\* Equal(s1, Reverse(s1)) return
CallSliceEqual ==
    /\ call.fn = "stringslice.Equal" /\ ~ call.done
    /\ call' = [fn |-> "stringslice.Equal", s1 |-> call.s1, s2 |-> call.s2, done |-> TRUE,
                ret |-> SliceEqual(call.s1, call.s2),
                swapped |-> SliceEqual(call.s2, call.s1),
                clone |-> SliceEqual(call.s1, SliceClone(call.s1)),
                reverse |-> SliceEqual(call.s1, Reverse(call.s1))]
    /\ UNCHANGED <<cfgFile, editsLeft, filesVars, loggerVars, logChan, logChanClosed,
                   clientVars, proc>>

SlicesNext == CallSliceEqual

SlicesSpec == InitSlices /\ [][SlicesNext]_vars

(***************************************************************************)
(* Package stringset, src/stringset/stringset.go:18-117: a StringSet under  *)
(* sequences of Add and Remove.                                            *)
(***************************************************************************)
\* the strings of the tests, stringset_test.go:24
TestStrings == {"a", "b", "c"}

\* New(): a StringSet with an empty map
NewStringSet == [set |-> <<>>]

\* Add: ss.set[e] = true for every e of elements
Add(ss, elements) ==
    [set |-> [k \in DOMAIN ss.set \cup {elements[i] : i \in 1..Len(elements)} |-> TRUE]]

\* Contain: s is a key of ss.set
Contain(ss, s) == s \in DOMAIN ss.set

\* a variant of Remove that empties the map
RemoveAll(ss, element) == [set |-> <<>>]

\* Remove: delete(ss.set, element)
Remove(ss, element) == [set |-> [k \in DOMAIN ss.set \ {element} |-> TRUE]]

\* Elements: a slice of the keys of ss.set. The order of a range over a map is not
\* fixed: the slices Elements can return
Elements(ss) ==
    {sl \in [1..Cardinality(DOMAIN ss.set) -> DOMAIN ss.set] :
        \A i, j \in 1..Cardinality(DOMAIN ss.set) : i # j => sl[i] # sl[j]}

\* the argument lists of Add: at most two of the strings
AddArgs == UNION {[1..n -> TestStrings] : n \in 0..2}

\* the arguments of AddSet: the sets of the strings
AddSetArgs == {[set |-> [k \in S |-> TRUE]] : S \in SUBSET TestStrings}

\* a program that has made an empty StringSet
InitStringSet ==
    /\ InitLogger /\ InitNoFiles
    /\ call = [fn |-> "stringset.New", ss |-> NewStringSet]

\* the call ss.Add(elements...) returns
CallAdd(elements) ==
    /\ call.fn \in {"stringset.New", "Add", "AddSet", "Remove"}
    /\ call' = [fn |-> "Add", before |-> call.ss, elements |-> elements,
                ss |-> Add(call.ss, elements)]
    /\ UNCHANGED <<cfgFile, editsLeft, filesVars, loggerVars, logChan, logChanClosed,
                   clientVars, proc>>

\* the call ss.AddSet(ss1) returns: ss.Add(ss1.Elements()...)
CallAddSet(ss1) ==
    /\ call.fn \in {"stringset.New", "Add", "AddSet", "Remove"}
    /\ \E elements \in Elements(ss1) :
           call' = [fn |-> "AddSet", before |-> call.ss, ss1 |-> ss1,
                    ss |-> Add(call.ss, elements)]
    /\ UNCHANGED <<cfgFile, editsLeft, filesVars, loggerVars, logChan, logChanClosed,
                   clientVars, proc>>

\* the call ss.Remove(element) returns
CallRemove(element) ==
    /\ call.fn \in {"stringset.New", "Add", "AddSet", "Remove"}
    /\ call' = [fn |-> "Remove", before |-> call.ss, element |-> element,
                ss |-> Remove(call.ss, element)]
    /\ UNCHANGED <<cfgFile, editsLeft, filesVars, loggerVars, logChan, logChanClosed,
                   clientVars, proc>>

StringSetNext ==
    \/ \E elements \in AddArgs : CallAdd(elements)
    \/ \E ss1 \in AddSetArgs : CallAddSet(ss1)
    \/ \E element \in TestStrings : CallRemove(element)

StringSetSpec == InitStringSet /\ [][StringSetNext]_vars

(***************************************************************************)
(* Notions of the properties.                                              *)
(***************************************************************************)
\* the write requests for log lines the FileSet has received
MsgWrites == {i \in 1..Len(fsWrites) : fsWrites[i].kind = "msg"}

\* the number of lines written for the entry with identity id
WriteCount(id) == Cardinality({i \in MsgWrites : fsWrites[i].id = id})

Written(id) == WriteCount(id) > 0

DeqIds == {deq[i].id : i \in 1..Len(deq)}

\* the stem of a source file: its name without directory and without its last
\* extension
FileStem(file) ==
    LET name == PathFile(file)
        dot == LastIndex(name, ".", Len(name))
    IN  IF dot = 0 THEN name ELSE SubSeq(name, 1, dot - 1)

\* the suppression set: the members of the comma separated list; the empty list
\* suppresses no file
SuppressionSet(list) ==
    IF list = <<>> THEN {}
    ELSE {Split(list, ",")[i] : i \in 1..Len(Split(list, ","))}

\* the configuration with threshold thr and suppression list sup
FilterConfig(thr, sup) == [DefaultConfig EXCEPT !.Priority = thr, !.SuppressedFiles = sup]

\* C1: an entry whose priority is above the threshold when the logger takes it from
\* logChan is never written, on the normal path, on the flush of SetConfig and
\* Suppress and on the drain of close, exit and panic; nor is the PANIC message
\* that goes through logMsg while the threshold is EXIT.
C1_AboveThresholdNeverWritten ==
    /\ \A i \in 1..Len(deq) : deq[i].priority > deq[i].thr => ~ Written(deq[i].id)
    /\ (lmsg.kind = "panic" /\ PANIC > cfg.Priority) =>
           \A i \in MsgWrites : fsWrites[i].tag # PANIC

\* an entry above the threshold was taken on the normal path and another one on a
\* flush or drain
C1_Witness ==
    \E i, j \in 1..Len(deq) :
        /\ deq[i].priority > deq[i].thr /\ deq[i].path = "run"
        /\ deq[j].priority > deq[j].thr /\ deq[j].path \in {"flush", "drain"}

\* C2: a DEBUG entry whose file stem is a member of the suppression list is never
\* written, whatever the threshold is; suppression does not affect an entry below
\* DEBUG: it is written when the threshold admits it.
C2_SuppressedDebugNeverWritten ==
    \A i \in 1..Len(deq) :
        /\ (deq[i].priority = DEBUG /\ FileStem(deq[i].file) \in SuppressionSet(deq[i].sup))
               => ~ Written(deq[i].id)
        /\ (deq[i].priority < DEBUG /\ deq[i].priority <= deq[i].thr)
               => Written(deq[i].id)

\* under threshold DEBUG a DEBUG entry of a listed file was dropped and an INFO entry
\* of a listed file was written
C2_Witness ==
    \E i, j \in 1..Len(deq) :
        /\ deq[i].priority = DEBUG /\ deq[i].thr = DEBUG
        /\ FileStem(deq[i].file) \in SuppressionSet(deq[i].sup)
        /\ deq[j].priority = INFO
        /\ FileStem(deq[j].file) \in SuppressionSet(deq[j].sup)
        /\ Written(deq[j].id)

\* C3: a DEBUG entry taken while the threshold is DEBUG whose file stem is not a
\* member of the suppression list is always written, also when the stem is a
\* substring of a listed stem and when the file name has no extension.
C3_UnlistedDebugWritten ==
    \A i \in 1..Len(deq) :
        (/\ deq[i].priority = DEBUG /\ deq[i].thr = DEBUG
         /\ FileStem(deq[i].file) \notin SuppressionSet(deq[i].sup))
            => Written(deq[i].id)

\* C4: every entry the filter admits when it is taken from logChan is written exactly
\* once and every other entry is not written.
C4_ExactlyOneWrite ==
    \A i \in 1..Len(deq) :
        WriteCount(deq[i].id) =
            IF Admits(FilterConfig(deq[i].thr, deq[i].sup), deq[i].file, deq[i].priority)
            THEN 1 ELSE 0

\* threshold INFO, no suppression: a DEBUG and an INFO entry were taken and the one
\* line written is tagged INFO
C4_Witness ==
    /\ Len(deq) = 2
    /\ \A i \in 1..2 : deq[i].thr = INFO /\ deq[i].sup = <<>>
    /\ {deq[i].priority : i \in 1..2} = {DEBUG, INFO}
    /\ Cardinality(MsgWrites) = 1
    /\ \A i \in MsgWrites : fsWrites[i].tag = INFO

\* C5: an entry that is in logChan when the logger receives a SetConfig or a Suppress
\* request is filtered and written under the configuration of that moment, the old
\* one.
C5_QueuedFilteredUnderOld ==
    \A i \in 1..Len(deq) :
        deq[i].queued =>
            (Written(deq[i].id) <=>
                Admits(FilterConfig(deq[i].oldthr, deq[i].oldsup), deq[i].file,
                       deq[i].priority))

\* C6: an entry that is put into logChan after a SetConfig or Suppress call has
\* returned, with no change of configuration between its send and its receive, is
\* filtered under the configuration that call asked for.
C6_LaterEntriesUnderNew ==
    \A i \in 1..Len(deq) :
        deq[i].fresh =>
            /\ deq[i].thr = deq[i].pthr
            /\ deq[i].sup = deq[i].psup
            /\ Written(deq[i].id) <=>
                   Admits(FilterConfig(deq[i].pthr, deq[i].psup), deq[i].file,
                          deq[i].priority)

\* after Suppress("a,c") has returned, with threshold DEBUG: the DEBUG entry from
\* a.go is dropped and the one from d.go is written; one of them was sent before
\* the logger had assigned the list
C6_Witness ==
    \E i, j \in 1..Len(deq) :
        /\ deq[i].fresh /\ deq[j].fresh
        /\ deq[i].psup = sA_C /\ deq[j].psup = sA_C
        /\ deq[i].pthr = DEBUG /\ deq[j].pthr = DEBUG
        /\ deq[i].priority = DEBUG /\ deq[i].file = fA /\ ~ Written(deq[i].id)
        /\ deq[j].priority = DEBUG /\ deq[j].file = fD /\ Written(deq[j].id)
        /\ "flush" \in {deq[i].path, deq[j].path}

\* C7: once logChan has been closed, a logging call returns to its caller, its entry
\* discarded: no client goroutine panics.
C7_LogAfterShutdownReturns == \A t \in Threads : pc[t] # "panicked"

\* C8: logChan never holds more than its capacity, a logging call that finds it
\* full has neither returned nor put its entry, and every logging call that has
\* returned has put its entry into logChan.
C8_BackPressureNoDrop ==
    /\ Len(logChan) <= LogChanCap
    /\ logRet \subseteq (QueuedIds \cup DeqIds)
    /\ \A t \in Threads :
           pc[t] = "log" => arg[t].id \notin (logRet \cup QueuedIds \cup DeqIds)

\* a logging call that was blocked on the full logChan has put its entry and
\* returned, and logChan is full
C8_Witness ==
    \E t \in Threads :
        /\ pc[t] = "idle" /\ arg[t].kind = "log"
        /\ arg[t].id \in logRet
        /\ Len(logChan) = LogChanCap

\* C9: every call of Exit is followed by the end of the process with the exit code
\* of the call, in every state of the logger, also after a close request.
C9_ExitEndsProcess ==
    \A t \in Threads :
        (pc[t] \in {"exitChan", "exitIF"}) ~>
            (proc.state = "exited" /\ lmsg.kind = "exit" /\ proc.code = lmsg.exitCode)

\* C10: once the logger has received an exit or a panic request, the process ends
\* only after the EXIT record is written, logChan is flushed and the FileSet is
\* closed, with the code of the request or 1 for a panic, and the caller of Exit or
\* Panic does not return.
C10_EndAfterFlushAndClose ==
    lmsg.kind \in {"exit", "panic"} =>
        /\ proc.state # "running" =>
               /\ fsState = "closed"
               /\ logChan = <<>>
               /\ logRet \subseteq DeqIds
               /\ proc.code = IF lmsg.kind = "exit" THEN lmsg.exitCode ELSE 1
        /\ lmsg.kind = "exit" =>
               /\ \E i \in 1..Len(fsWrites) :
                      fsWrites[i].kind = "exit" /\ fsWrites[i].text = lmsg.exitCode
               /\ \E t \in Threads : pc[t] = "exitIF"
        /\ lmsg.kind = "panic" => \E t \in Threads : pc[t] = "panicIF"

\* C11: whatever the threshold and the suppression list are, when the process has
\* exited on a panic request the FileSet holds a PANIC record with the stack trace,
\* the FileSet is closed and the exit code is 1.
C11_PanicRecordWritten ==
    (lmsg.kind = "panic" /\ proc.state = "exited") =>
        /\ \E i \in MsgWrites : fsWrites[i].tag = PANIC /\ fsWrites[i].text = stackTrace
        /\ fsState = "closed"
        /\ proc.code = 1

\* C12: the Config GetConfig returns has the fields of the logger's configuration
\* of that moment and is an object of its own: a caller's assignment to it leaves
\* the logger's configuration as it is, and no step other than the caller's own
\* changes a Config that was returned.
C12_CloneIndependent ==
    [][\A t \in Threads :
          /\ CallGetConfig(t) => (got'[t].val = cfg /\ cfg' = cfg)
          /\ MutateConfig(t) => cfg' = cfg
          /\ ~ (CallGetConfig(t) \/ MutateConfig(t)) => got'[t].val = got[t].val]_vars

\* one caller has assigned to the Config it was given, another holds the Config it
\* was given unchanged, and the logger's configuration has been changed since
C12_Witness ==
    \E t, u \in Threads :
        /\ ~ got[t].nil /\ got[t].val.RootDir = mine
        /\ ~ got[u].nil /\ got[u].val.RootDir # mine
        /\ cfg.RootDir # mine
        /\ cfg # got[u].val

\* C13: a GetConfig call does not hold its caller for ever, in whatever state the
\* logger is, also after a close request: the caller that is at its send on
\* getConfigChan gets on, with a Config or with the panic of the timeout.
C13_GetConfigReturns ==
    \A t \in Threads :
        (pc[t] = "getConfigChan") ~> (pc[t] # "getConfigChan" \/ ~ Running)

\* C15: every call of Close returns to its caller in the end, also a call that is
\* made after the logger has been closed.
C15_CloseReturns ==
    \A t \in Threads : (pc[t] = "closeChan") ~> (pc[t] = "idle")

RECURSIVE LinesOf(_, _)
\* the lines of the entries q that configuration c admits, in the order of q
LinesOf(q, c) ==
    IF q = <<>> THEN <<>>
    ELSE (IF Admits(c, Head(q).file, Head(q).priority)
          THEN << MsgLine(Head(q).id, Head(q).file, Head(q).priority, <<>>) >>
          ELSE <<>>) \o LinesOf(Tail(q), c)

\* C14: once the logger has received a close request logChan takes no entry more;
\* the logger then writes the entries of logChan in their order, filtered under the
\* configuration of that moment, and closes the FileSet; from then on the logger
\* stays returned and the FileSet gets no write.
C14_CloseDrainsThenCloses ==
    /\ [][(lmsg.kind = "close" /\ lpc = "closing") =>
              /\ cfg' = cfg
              /\ IF lpc' = "returned"
                 THEN logChan = <<>> /\ fsState' = "closed" /\ fsWrites' = fsWrites
                 ELSE \/ logChan' = logChan /\ fsWrites' = fsWrites
                      \/ /\ logChan # <<>> /\ logChan' = Tail(logChan)
                         /\ fsWrites' = fsWrites \o LinesOf(<<Head(logChan)>>, cfg)
                         /\ fsState' = "open"]_vars
    /\ [][lpc = "returned" => (lpc' = "returned" /\ fsWrites' = fsWrites)]_vars
    /\ (lmsg.kind = "close") ~> (lpc = "returned" /\ fsState = "closed")

\* C16: c.Equal(c1) is true if and only if c and c1 are equal in every field,
\* SuppressedFiles among them.
C16_EqualAllFields ==
    (call.fn = "Equal" /\ call.done) => (call.ret <=> call.c = call.c1)

\* C17: a tick of the config-read timer that reads a Config different from the
\* logger's makes the threshold and the suppression list of the logger and the
\* maximal number of files, the maximal file size and the directory of the FileSet
\* those of the Config read; a tick that reads an equal Config changes nothing and
\* writes no record.
C17_ReloadAdoptsAll ==
    [][LoggerRefresh =>
          IF readConfigFile # cfg
          THEN /\ cfg'.Priority = readConfigFile.Priority
               /\ cfg'.SuppressedFiles = readConfigFile.SuppressedFiles
               /\ fsMaxFiles' = readConfigFile.NumFiles
               /\ fsMaxBytes' = readConfigFile.FileNumBytes
               /\ fsLogDir' = readConfigFile.RootDir
          ELSE UNCHANGED <<cfg, fsWrites, fsMaxFiles, fsMaxBytes, fsLogDir>>]_vars

\* the place in the order of the sends on logChan of the entry whose line is the
\* i-th write
OrdOfWrite(i) == deq[CHOOSE k \in 1..Len(deq) : deq[k].id = fsWrites[i].id].ord

\* the writes of lines of entries that came through logChan
EntryWrites == {i \in MsgWrites : fsWrites[i].id \in DeqIds}

\* C18: the lines of the entries of logChan are written in the order in which the
\* entries were put into logChan, also when a flush of SetConfig or Suppress or the
\* drain of the shutdown takes some of the entries.
C18_WritesInSendOrder ==
    \A i, j \in EntryWrites : i < j => OrdOfWrite(i) < OrdOfWrite(j)

\* the flush of a SetConfig or Suppress request has taken two entries and both
\* are written
C18_Witness ==
    \E i, j \in 1..Len(deq) :
        /\ i < j /\ deq[i].path = "flush" /\ deq[j].path = "flush"
        /\ Written(deq[i].id) /\ Written(deq[j].id)

\* C19: a write of b bytes to a FileSet whose file holds c bytes makes exactly one
\* rotation if c + b >= maxFileSize, however large c + b is: one file is closed, one
\* file is made and the size is 0; if c + b < maxFileSize there is no rotation and
\* the size is c + b.
C19_WriteRotatesOnce ==
    call.fn = "Write" =>
        IF call.size >= call.maxFileSize
        THEN /\ fsOpens = call.opens + 1
             /\ fsCloses = call.closes + 1
             /\ fsSize = 0
             /\ fsCur \in DOMAIN dir
        ELSE /\ fsOpens = call.opens
             /\ fsCloses = call.closes
             /\ fsSize = call.size
             /\ fsCur = call.currentFile
             /\ DOMAIN dir = call.files

\* a write to a file that holds bytes already has gone past twice the maximal size
\* and has rotated
C19_Witness ==
    /\ call.fn = "Write"
    /\ call.size - call.n > 0
    /\ call.size > 2 * call.maxFileSize
    /\ fsOpens = call.opens + 1
    /\ fsSize = 0

\* the log files of the FileSet in its directory
LogFiles == {f \in DOMAIN dir : Match(f, logName)}

\* C20: after every rotation, at the start, after a write and in SetConfig, with
\* maxNumFiles >= 1 and whatever files the directory held, the directory holds at
\* most maxNumFiles files that match the log name.
C20_AtMostMaxFiles ==
    (call.fn \in {"run", "Write", "SetConfig"} /\ fsOpens > call.opens /\ fsMaxFiles >= 1)
        => Cardinality(LogFiles) <= fsMaxFiles

\* SetConfig has lowered maxNumFiles to 2 and has rotated in a directory that held
\* more than 2 log files
C20_Witness ==
    /\ call.fn = "SetConfig" /\ fsOpens > call.opens
    /\ fsMaxFiles = 2
    /\ Cardinality({f \in call.files : Match(f, logName)}) > 2
    /\ Cardinality(LogFiles) = 2

\* the call that has just been served has rotated
Rotated == call.fn \in {"run", "Write", "SetConfig"} /\ fsOpens > call.opens

\* the files a rotation has deleted and the log files it has kept
DeletedFiles == DOMAIN call.old \ DOMAIN dir
KeptFiles ==
    {g \in DOMAIN call.old \cap DOMAIN dir :
        Match(g, logName) /\ dir[g].born = call.old[g].born}

\* C21: the files a rotation deletes are the oldest in the order of their creation:
\* no file is deleted while a log file that was created before it is kept.
C21_DeletesOldest ==
    Rotated =>
        \A f \in DeletedFiles : \A g \in KeptFiles : call.old[g].born > call.old[f].born

\* C22: the FileSet never holds more than one open file: the files it has opened are
\* at most one more than the files it has closed, and none is open after close.
C22_AtMostOneOpen ==
    /\ fsOpens - fsCloses <= 1
    /\ fsState = "closed" => fsOpens = fsCloses

\* C22 witness: the FileSet has been closed after a rotation that followed the one of
\* its start, so that it has closed a file in a rotation and a file in close.
C22_Witness == fsState = "closed" /\ fsOpens >= 2 /\ fsCloses = fsOpens

RECURSIVE Crossings(_, _, _)
\* how often the size of the current file reaches max when the requests q are
\* appended to a file of size bytes and every file that reaches max is replaced by an
\* empty one
Crossings(size, max, q) ==
    IF q = <<>> THEN 0
    ELSE IF size + Head(q).n >= max THEN 1 + Crossings(0, max, Tail(q))
    ELSE Crossings(size + Head(q).n, max, Tail(q))

\* C23: when run serves a close request, the write requests that wait in msgChan are
\* appended to the log in the order of the queue, with a rotation whenever the size
\* reaches the maximum, and the current file is closed after that; once the FileSet
\* is closed nothing is appended and no file changes.
C23_CloseDrainsQueue ==
    /\ [](fsState = "closing" =>
            /\ Len(fsWrites) = call.nwritten + Len(call.pending) - Len(msgChan)
            /\ msgChan = SubSeq(call.pending, Len(call.pending) - Len(msgChan) + 1,
                                Len(call.pending))
            /\ \A i \in 1..(Len(fsWrites) - call.nwritten) :
                   fsWrites[call.nwritten + i].n = call.pending[i].n
            /\ fsCloses = fsOpens - 1)
    /\ [](fsState = "closed" =>
            /\ msgChan = <<>>
            /\ Len(fsWrites) = call.nwritten + Len(call.pending)
            /\ \A i \in 1..Len(call.pending) :
                   fsWrites[call.nwritten + i].n = call.pending[i].n
            /\ fsOpens = call.opens + Crossings(call.size, call.maxFileSize, call.pending)
            /\ fsCloses = fsOpens)
    /\ [][fsState = "closed" => (fsWrites' = fsWrites /\ dir' = dir)]_vars

\* C23 witness: close has found two write requests in msgChan and has rotated while it
\* logged them, and Close has returned to its caller.
C23_Witness ==
    /\ fsState = "closed" /\ call.fn = "Close" /\ call.replied
    /\ Len(call.pending) = 2
    /\ fsOpens > call.opens
    /\ Len(fsWrites) = call.nwritten + 2

RECURSIVE SumOf(_, _)
\* the bytes of the writes of the history w that went to file number gen
SumOf(w, gen) ==
    IF w = <<>> THEN 0
    ELSE (IF Head(w).gen = gen THEN Head(w).n ELSE 0) + SumOf(Tail(w), gen)

\* the bytes that Write has appended to the current file since newFile made it
Received == SumOf(fsWrites, fsOpens)

\* C24: once close is done, the file that was current is in the directory if and
\* only if at least one byte has been written to it since it was made; the header
\* that newFile puts into it does not count.
C24_EmptyFileRemoved ==
    fsState = "closed" => (fsCur \in DOMAIN dir <=> Received >= 1)

\* C24 witness: the last write has rotated, and close has removed the file of that
\* rotation, to which nothing was written.
C24_Witness ==
    /\ fsState = "closed" /\ call.fn = "Close"
    /\ fsWrites # <<>> /\ fsWrites[Len(fsWrites)].gen < fsOpens
    /\ fsCur \notin DOMAIN dir

\* C25: a SetConfig with a maximal size below the size of the current file rotates
\* before it replies: the file is closed, a new one is current and its size is 0, and
\* every write that follows goes to the file that is current when it is served; a
\* SetConfig with a maximal size above the size of the current file does not rotate
\* and changes nothing but maxFileSize and maxNumFiles.
C25_SetConfigRotates ==
    /\ [](call.fn = "SetConfig" =>
            /\ fsMaxBytes < call.size =>
                   /\ fsOpens = call.opens + 1
                   /\ fsCloses = call.closes + 1
                   /\ fsSize = 0
                   /\ fsCur \in DOMAIN dir /\ dir[fsCur].data = 0
            /\ fsMaxBytes > call.size =>
                   /\ fsOpens = call.opens
                   /\ fsCloses = call.closes
                   /\ fsSize = call.size
                   /\ fsCur = call.currentFile
                   /\ dir = call.old
                   /\ Len(fsWrites) = call.nwritten)
    /\ [][Len(fsWrites') > Len(fsWrites) =>
              /\ fsWrites'[Len(fsWrites) + 1].gen = fsOpens
              /\ fsWrites'[Len(fsWrites) + 1].file = fsCur]_vars

\* C25 witness: SetConfig has set a maximal size below the size of the current file,
\* to which data had been written, and has rotated.
C25_Witness ==
    /\ call.fn = "SetConfig"
    /\ call.size > 0 /\ fsMaxBytes < call.size
    /\ fsOpens = call.opens + 1
    /\ fsCur # call.currentFile

\* the names of the files that earlier runs have left in the directory
OldNames ==
    {LogFileName(logName, t) : t \in OldTimes}
        \cup {LogFileName(otherName, 0), LogFileName(longName, 0)}

\* C26: run rotates before it serves a request: every write has gone to a file that
\* newFile has made in this run, never to a file that was in the directory when the
\* FileSet was made, and no request is served while there is no current file.
C26_FreshFilePerRun ==
    /\ \A i \in 1..Len(fsWrites) :
           /\ fsWrites[i].file # nil
           /\ fsWrites[i].gen >= 1
           /\ fsWrites[i].file \notin OldNames
    /\ call.fn \in {"Write", "SetConfig", "Close"} => call.currentFile # nil
    /\ fsState = "none" => fsWrites = <<>> /\ fsOpens = 0

\* C26 witness: the directory held log files of earlier runs when the FileSet was
\* made, one of them is still there, and a write has been served.
C26_Witness ==
    /\ fsWrites # <<>>
    /\ \E f \in DOMAIN dir \cap OldNames : Match(f, logName)
    /\ fsWrites[1].file = LogFileName(logName, 3)

\* C27: a goroutine that has called Write, SetConfig or Close and waits, in the send of
\* its request or for the reply, does not wait for ever: it returns, or the process
\* ends with the panic of a timeout.
C27_CallsReturn ==
    \A c \in Callers :
        (pc[c] \in {"Write", "SetConfig", "Close"}) ~> (pc[c] = "idle" \/ ~Running)

\* C28: every Write of a sequence of writes returns the length of its buffer and no
\* error, also when it rotates and deletes files; in TestFiles1 the FileSet rotates
\* after the 10th and after the 20th write and after no other write, and after a
\* rotation the directory holds at most 3 log files.
C28_TestFiles1 ==
    /\ call.fn = "Write" =>
           /\ call.ret = [n |-> call.n, err |-> nil]
           /\ fsOpens > call.opens <=> Len(fsWrites) \in {10, 20}
    /\ fsState # "none" => fsOpens = 1 + Len(fsWrites) \div 10
    /\ Rotated => Cardinality(LogFiles) <= 3
    /\ Len(fsWrites) <= TestWrites

\* C28 witness: the 20th write has returned; it has rotated and the rotation has
\* deleted a file.
C28_Witness ==
    /\ call.fn = "Write" /\ Len(fsWrites) = 20
    /\ fsOpens = call.opens + 1
    /\ DeletedFiles # {}
    /\ call.ret.n = TestLineLen

\* the writes that have failed
FailedWrites == {i \in 1..Len(fsWrites) : fsWrites[i].kind = "error"}

\* C29: a write to the log file that fails ends the process: after a failed write,
\* of a log line or of a record of the configuration, the process does not run and
\* the logger has written no further record.
C29_WriteFailureFatal ==
    \A i \in FailedWrites : ~ Running /\ i = Len(fsWrites)

\* how often the string e is in the slice s
Count(s, e) == Cardinality({i \in 1..Len(s) : s[i] = e})

\* s1 and s2 hold the same strings, each as often in s1 as in s2, in any order
SameStrings(s1, s2) == \A e \in {"a", "b"} : Count(s1, e) = Count(s2, e)

\* C30: Equal(s1, s2) is true if and only if s1 and s2 hold the same strings in any
\* order, also for slices that hold a string more than once; Equal(s1, Clone(s1)) and
\* Equal(s1, Reverse(s1)) are true, and Equal(s1, s2) = Equal(s2, s1).
C30_EqualSameStrings ==
    (call.fn = "stringslice.Equal" /\ call.done) =>
        /\ call.ret <=> SameStrings(call.s1, call.s2)
        /\ call.clone
        /\ call.reverse
        /\ call.ret <=> call.swapped

\* C31: after Add every element added is in the set; after AddSet the set holds its
\* strings and those of the set added; after Remove(s) the set does not
\* hold s and holds every other string exactly if it held it before, after any
\* sequence of calls of Add and Remove.
C31_AddRemoveContain ==
    /\ call.fn = "Add" =>
           \A i \in 1..Len(call.elements) : Contain(call.ss, call.elements[i])
    /\ call.fn = "AddSet" =>
           \A e \in TestStrings :
               Contain(call.ss, e) <=> (Contain(call.before, e) \/ Contain(call.ss1, e))
    /\ call.fn = "Remove" =>
           /\ ~ Contain(call.ss, call.element)
           /\ \A e \in TestStrings \ {call.element} :
                  Contain(call.ss, e) <=> Contain(call.before, e)

\* C31 witness: Remove has taken a string out of a set that held it and another
\* string, which is still in the set.
C31_Witness ==
    /\ call.fn = "Remove"
    /\ Contain(call.before, call.element)
    /\ \E e \in TestStrings \ {call.element} : Contain(call.ss, e)

\* the EXIT records and the PANIC records of the log
LastRecords ==
    {i \in 1..Len(fsWrites) :
        \/ fsWrites[i].kind = "exit"
        \/ fsWrites[i].kind = "msg" /\ fsWrites[i].tag = PANIC}

\* C32: the EXIT record and the PANIC record are the last of the log: no line of an
\* entry of logChan is written after them.
C32_ExitRecordLast ==
    \A i \in LastRecords : \A j \in EntryWrites : j < i

\* C33: while the config source does not change, a tick of the config-read timer
\* leaves NumFiles, FileNumBytes and Priority of the logger as the last SetConfig
\* request has set them.
C33_SetConfigKept ==
    [][(LoggerRefresh /\ cfgFile' = cfgFile) =>
           /\ cfg'.NumFiles = cfg.NumFiles
           /\ cfg'.FileNumBytes = cfg.FileNumBytes
           /\ cfg'.Priority = cfg.Priority]_vars

\* C34: a goroutine whose write request is in msgChan leaves its wait in Write only
\* with the reply to that request, also when close has logged the request: it never
\* leaves it with the panic of the timeout.
C34_WriteGetsReply ==
    [][\A c \in Callers :
          (pc[c] = "Write" /\ pc'[c] # "Write") =>
              (pc'[c] = "idle" /\ call'.fn = "Write")]_vars

\* C35: between two requests, with maxFileSize >= 1, the size the FileSet keeps of its
\* current file is below maxFileSize and is the sum of the writes that went to the
\* file since the rotation that made it.
C35_SizeBelowMax ==
    (fsState = "open" /\ fsMaxBytes >= 1) =>
        /\ fsSize < fsMaxBytes
        /\ fsSize = Received

\* the files that newFile makes for the log name of the FileSet
OwnFiles == {LogFileName(logName, t) : t \in 0..MaxTime}

\* C36: a rotation deletes only files that were made for the log name of the
\* FileSet, never the log file of a program with another log name in the same
\* directory, also when that name begins with the log name of the FileSet.
C36_DeletesOwnFilesOnly ==
    Rotated => DeletedFiles \subseteq OwnFiles

\* C37: whatever the client goroutines call at the same time, and with no failed
\* write, the logger and the FileSet do not block each other before the shutdown,
\* and every request that was sent to the running logger is served in the end: an
\* entry that was put into logChan before logChan was closed is taken from logChan
\* by the logger.
C37_RequestsServed ==
    \A id \in 1..MaxLogs : (id \in QueuedIds /\ ~ logChanClosed) ~> (id \in DeqIds)

\* C38: on every path the logger runs its shutdown l.close() at most once: the
\* logger goroutine comes to l.close() only while logChan is open, so logChan is
\* closed at most once, and a FileSet that has been closed gets no further close
\* request.
C38_ShutdownOnce ==
    /\ [][(lpc' # lpc /\ lpc' \in {"closing", "deferred"}) => ~ logChanClosed]_vars
    /\ [][fsState = "closed" =>
              (fsState' = "closed" /\ lpc' \in {"exiting", "returned"})]_vars

====
